---- MODULE Spec2Model ----
(***************************************************************************)
(* State-machine model of agent_world_core: the grid container (map.rs),   *)
(* the environment and its action-resolution engine (environment.rs) and   *)
(* the agent behaviours that drive it (agent.rs).                          *)
(***************************************************************************)
EXTENDS Integers, Sequences, FiniteSets, TLC

(***************************************************************************)
(* Bounds of the model.                                                    *)
(***************************************************************************)
\* Agent ids offered to add_agent and process_action are 0..MaxAgentId.
MaxAgentId == 1
\* Longest initial inventory handed to add_agent.
MaxInitInventory == 2
\* Number of add_item calls that succeed (items never return to the grid,
\* so without it a cell could be refilled for ever).
MaxAddItem == 1
\* Number of reserve_entity_id calls in the world that explores the counter.
MaxReserve == 2
\* Path queries are made on grids of at most this many cells
MaxPathCells == 6
\* in which at most this many cells are a wall, a door or another agent.
MaxObstacles == 2

\* Grids of up to this width and height are handed to the Grid operations.
MaxGridSide == 2

\* Map strings of up to this many lines, of up to this many tokens each,
\* are handed to the loader.
MaxMapLines == 2
MaxMapTokens == 2

\* get_action on its own: the cells of the largest map, and the most cells
\* of a map that are not plain floor
MaxPlanCells == 4
MaxPlanFeatures == 3

\* The key-door-goal chain is followed on maps of at most this many cells,
\* of which at most this many are walls.
MaxLiveCells == 6
MaxLiveWalls == 2

\* The key queries are made on maps of at most this many cells.
MaxKeyMapCells == 4

\* process_turn calls counted in the worlds of the planning agent; a count of
\* MaxTurns stands for MaxTurns or more.
MaxTurns == 5

(***************************************************************************)
(* lib.rs: Position, DoorKeyType, Item; Rust's Option.                     *)
(***************************************************************************)
Some(v) == [some |-> TRUE, value |-> v]
None == [some |-> FALSE]

Position(px, py) == [x |-> px, y |-> py]

DoorKeyType == {"Red", "Green", "Blue", "Yellow"}

Key(k) == [tag |-> "Key", key_type |-> k]
Chip == [tag |-> "Chip"]
Goal == [tag |-> "Goal"]

\* usize arithmetic wraps modulo the word size.  TLC integers are 32 bits
\* wide, so the model keeps a 30-bit word; coordinates stay far below it.
UsizeModulus == 32768 * 32768

\* The sum stops at zero instead of wrapping.
saturating_add_signed(a, d) == IF a + d < 0 THEN 0 ELSE a + d

wrapping_add_signed(a, d) == (a + d + UsizeModulus) % UsizeModulus

(***************************************************************************)
(* environment.rs: CellType, Action, ActionResult.                         *)
(***************************************************************************)
Floor == [tag |-> "Floor"]
Wall == [tag |-> "Wall"]
Door(open, door_type) == [tag |-> "Door", open |-> open, door_type |-> door_type]

Wait == [tag |-> "Wait"]
Move(dx, dy) == [tag |-> "Move", dx |-> dx, dy |-> dy]

Success == [tag |-> "Success"]
Win == [tag |-> "Win"]
Failure(reason) == [tag |-> "Failure", reason |-> reason]

AgentState(id, position, inventory) ==
    [id |-> id, position |-> position, inventory |-> inventory]

(***************************************************************************)
(* map.rs: Grid<T>, row-major storage.  cells is 1-based here, so the Rust *)
(* index i is cells[i + 1].                                                *)
(***************************************************************************)
GridNew(width, height, default) ==
    [width |-> width, height |-> height,
     cells |-> [i \in 1..(width * height) |-> default]]

is_valid(g, px, py) == px < g.width /\ py < g.height

\* Only the flat index is checked against the number of cells.
coords_to_index_flat(g, px, py) ==
    IF py * g.width + px < g.width * g.height
    THEN Some(py * g.width + px) ELSE None

\* Option<usize>
coords_to_index(g, px, py) ==
    IF px < g.width /\ py < g.height THEN Some(py * g.width + px) ELSE None

\* Option<&T>
get(g, px, py) ==
    IF is_valid(g, px, py)
    THEN Some(g.cells[coords_to_index(g, px, py).value + 1])
    ELSE None

\* grid[pos]; the caller has validated pos (out of bounds aborts in Rust).
Index(g, pos) == g.cells[coords_to_index(g, pos.x, pos.y).value + 1]

\* grid[pos] = value
IndexSet(g, pos, value) ==
    [g EXCEPT !.cells[coords_to_index(g, pos.x, pos.y).value + 1] = value]

\* Option<&mut T>: the cell that the reference leads to.
get_mut(g, px, py) ==
    IF is_valid(g, px, py)
    THEN Some(g.cells[coords_to_index(g, px, py).value + 1])
    ELSE None

\* Result<(), GridError> and the grid afterwards
set(g, px, py, value) ==
    LET index == coords_to_index(g, px, py)
    IN  IF index.some
        THEN [grid |-> [g EXCEPT !.cells[index.value + 1] = value], ok |-> TRUE]
        ELSE [grid |-> g, ok |-> FALSE,
              error |-> [tag |-> "OutOfBounds", x |-> px, y |-> py,
                         width |-> g.width, height |-> g.height]]

\* What an indexed access ends with: the cell, or the panic.
Returned(cell) == [panic |-> FALSE, value |-> cell]
Panic == [panic |-> TRUE]

\* grid[(x, y)]
index_coords(g, xy) ==
    LET idx == coords_to_index(g, xy[1], xy[2])
    IN  IF idx.some THEN Returned(g.cells[idx.value + 1]) ELSE Panic

\* grid[position]
index_position(g, pos) ==
    LET idx == coords_to_index(g, pos.x, pos.y)
    IN  IF idx.some THEN Returned(g.cells[idx.value + 1]) ELSE Panic

\* index_to_coords for a valid Rust index i
index_to_coords(g, i) == Position(i % g.width, i \div g.width)

\* Every position of the grid, as a set.
Positions(g) == {Position(px, py) : px \in 0..(g.width - 1), py \in 0..(g.height - 1)}

(***************************************************************************)
(* environment.rs: Environment::new and load_environment_from_string.      *)
(* A map is the sequence of its rows, each row the sequence of its         *)
(* whitespace-separated tokens.                                            *)
(***************************************************************************)
EnvironmentNew(width, height) ==
    [terrain |-> GridNew(width, height, Floor),
     items |-> GridNew(width, height, None),
     agent_locations |-> GridNew(width, height, None),
     agents |-> << >>,
     agent_behaviors |-> << >>,
     next_entity_id |-> 0]

MapCodes ==
    {"ST", "BL", "WL", "WA", "DP", "PL", "CH",
     "DG", "DY", "DB", "DR", "KG", "KY", "KB", "KR"}

TokenColour(token) ==
    CASE token \in {"DG", "KG"} -> "Green"
      [] token \in {"DY", "KY"} -> "Yellow"
      [] token \in {"DB", "KB"} -> "Blue"
      [] token \in {"DR", "KR"} -> "Red"

TokenCell(token) ==
    CASE token \in {"WL", "WA"} -> Wall
      [] token \in {"DG", "DY", "DB", "DR"} -> Door(FALSE, Some(TokenColour(token)))
      [] OTHER -> Floor

TokenItem(token) ==
    CASE token = "PL" -> Some(Goal)
      [] token = "CH" -> Some(Chip)
      [] token \in {"KG", "KY", "KB", "KR"} -> Some(Key(TokenColour(token)))
      [] OTHER -> None

\* Only the end of the string is trimmed.
RECURSIVE trim_end(_)
trim_end(map_string) ==
    IF map_string # << >> /\ map_string[Len(map_string)] = << >>
    THEN trim_end(SubSeq(map_string, 1, Len(map_string) - 1))
    ELSE map_string

\* map_string.trim().lines(): a map string is the sequence of its lines,
\* each line the sequence of its tokens; the lines without token at its
\* start and at its end are white space, which trim() takes away.
RECURSIVE trim(_)
trim(map_string) ==
    IF map_string # << >> /\ Head(map_string) = << >>
    THEN trim(Tail(map_string))
    ELSE IF map_string # << >> /\ map_string[Len(map_string)] = << >>
    THEN trim(SubSeq(map_string, 1, Len(map_string) - 1))
    ELSE map_string

load_environment_from_string(map_string) ==
  LET rows == trim(map_string) IN
    IF Len(rows) = 0 THEN [ok |-> FALSE, error |-> "Map string is empty."]
    ELSE IF Len(rows[1]) = 0 THEN [ok |-> FALSE, error |-> "Map has zero width."]
    ELSE IF \E r \in 2..Len(rows) : Len(rows[r]) # Len(rows[1])
    THEN [ok |-> FALSE, error |-> "Inconsistent width"]
    ELSE
      LET height == Len(rows)
          width == Len(rows[1])
          token(i) == rows[(i \div width) + 1][(i % width) + 1]
          indices == 0..(width * height - 1)
          starts == {i \in indices : token(i) = "ST"}
          unknown == {i \in indices : token(i) \notin MapCodes}
          \* the scan is row-major and stops at the first offending token
          firstUnknown == IF unknown = {} THEN width * height
                          ELSE CHOOSE i \in unknown : \A j \in unknown : i <= j
          secondStart ==
              IF Cardinality(starts) < 2 THEN width * height
              ELSE CHOOSE i \in starts :
                     Cardinality({j \in starts : j < i}) = 1
          env0 == EnvironmentNew(width, height)
      IN  IF firstUnknown < secondStart
          THEN [ok |-> FALSE, error |-> "Unknown map code"]
          ELSE IF secondStart < width * height
          THEN [ok |-> FALSE, error |-> "Multiple start positions ('ST') found."]
          ELSE IF starts = {}
          THEN [ok |-> FALSE, error |-> "No start position ('ST') found in map."]
          ELSE [ok |-> TRUE,
                env |-> [env0 EXCEPT
                           !.terrain.cells = [i \in 1..(width * height) |-> TokenCell(token(i - 1))],
                           !.items.cells = [i \in 1..(width * height) |-> TokenItem(token(i - 1))]],
                start |-> index_to_coords(env0.terrain, CHOOSE i \in starts : TRUE)]

(***************************************************************************)
(* environment.rs: Environment::reserve_entity_id, Environment::add_item   *)
(* and Environment::add_agent.  Each returns the environment it leaves     *)
(* behind and what it returns.  The additions on EntityId are those of a   *)
(* build without overflow checks, which wrap; with overflow checks the     *)
(* call panics at the addition instead.                                    *)
(***************************************************************************)
\* let id = self.next_entity_id; self.next_entity_id += 1; id
reserve_entity_id(e) ==
    [env |-> [e EXCEPT !.next_entity_id = (@ + 1) % UsizeModulus],
     id |-> e.next_entity_id]

\* An item already on the cell is replaced.
add_item_overwrites(e, position, item) ==
    IF ~is_valid(e.terrain, position.x, position.y)
    THEN [env |-> e, ok |-> FALSE, error |-> "out of bounds"]
    ELSE IF Index(e.agent_locations, position).some
    THEN [env |-> e, ok |-> FALSE, error |-> "occupied by an agent"]
    ELSE IF Index(e.terrain, position) = Wall
    THEN [env |-> e, ok |-> FALSE, error |-> "inside a Wall"]
    ELSE [env |-> [e EXCEPT !.items = IndexSet(e.items, position, Some(item))],
          ok |-> TRUE]

add_item(e, position, item) ==
    IF ~is_valid(e.terrain, position.x, position.y)
    THEN [env |-> e, ok |-> FALSE, error |-> "out of bounds"]
    ELSE IF Index(e.items, position).some
    THEN [env |-> e, ok |-> FALSE, error |-> "already contains an item"]
    ELSE IF Index(e.agent_locations, position).some
    THEN [env |-> e, ok |-> FALSE, error |-> "occupied by an agent"]
    ELSE IF Index(e.terrain, position) = Wall
    THEN [env |-> e, ok |-> FALSE, error |-> "inside a Wall"]
    ELSE [env |-> [e EXCEPT !.items = IndexSet(e.items, position, Some(item))],
          ok |-> TRUE]

\* max of two usize values
Max(a, b) == IF a >= b THEN a ELSE b

\* HashMap::insert
MapInsert(m, k, v) == [x \in (DOMAIN m) \cup {k} |-> IF x = k THEN v ELSE m[x]]

\* A closed door is accepted as a place for the new agent.
add_agent_in_closed_door(e, position, behavior, initial_inventory) ==
    LET agent_id == behavior.id
    IN  IF ~is_valid(e.terrain, position.x, position.y)
        THEN [env |-> e, ok |-> FALSE, error |-> "out of bounds"]
        ELSE IF Index(e.agent_locations, position).some
        THEN [env |-> e, ok |-> FALSE, error |-> "already occupied by an agent"]
        ELSE IF Index(e.terrain, position) = Wall
        THEN [env |-> e, ok |-> FALSE, error |-> "inside a Wall"]
        ELSE IF agent_id \in DOMAIN e.agents
        THEN [env |-> e, ok |-> FALSE, error |-> "Agent ID already in use"]
        ELSE [env |-> [e EXCEPT
                         !.agent_locations = IndexSet(e.agent_locations, position, Some(agent_id)),
                         !.agents = MapInsert(e.agents, agent_id,
                                              AgentState(agent_id, position, initial_inventory)),
                         !.agent_behaviors = MapInsert(e.agent_behaviors, agent_id, behavior),
                         !.next_entity_id =
                             Max(e.next_entity_id, (agent_id + 1) % UsizeModulus)],
              ok |-> TRUE, id |-> agent_id]

add_agent(e, position, behavior, initial_inventory) ==
    LET agent_id == behavior.id
    IN  IF ~is_valid(e.terrain, position.x, position.y)
        THEN [env |-> e, ok |-> FALSE, error |-> "out of bounds"]
        ELSE IF Index(e.agent_locations, position).some
        THEN [env |-> e, ok |-> FALSE, error |-> "already occupied by an agent"]
        ELSE IF Index(e.terrain, position) = Wall
        THEN [env |-> e, ok |-> FALSE, error |-> "inside a Wall"]
        ELSE IF Index(e.terrain, position).tag = "Door" /\ ~Index(e.terrain, position).open
        THEN [env |-> e, ok |-> FALSE, error |-> "inside a closed Door"]
        ELSE IF agent_id \in DOMAIN e.agents
        THEN [env |-> e, ok |-> FALSE, error |-> "Agent ID already in use"]
        ELSE [env |-> [e EXCEPT
                         !.agent_locations = IndexSet(e.agent_locations, position, Some(agent_id)),
                         !.agents = MapInsert(e.agents, agent_id,
                                              AgentState(agent_id, position, initial_inventory)),
                         !.agent_behaviors = MapInsert(e.agent_behaviors, agent_id, behavior),
                         !.next_entity_id =
                             Max(e.next_entity_id, (agent_id + 1) % UsizeModulus)],
              ok |-> TRUE, id |-> agent_id]

(***************************************************************************)
(* environment.rs: Environment::process_action, in the order of the code:  *)
(* agent lookup, bounds check, item on the target cell, terrain of the     *)
(* target cell.                                                            *)
(***************************************************************************)
\* Vec::remove(index), index 0-based
VecRemove(v, index) ==
    [j \in 1..(Len(v) - 1) |-> IF j <= index THEN v[j] ELSE v[j + 1]]

\* inventory.iter().find(|i| matches!(i, Item::Key { key_type } if *key_type == *key)).is_some()
has_key(inventory, key) ==
    \E j \in 1..Len(inventory) : inventory[j] = Key(key)

\* Any item of the inventory is taken for the key.
key_index_any_item(inventory, required_type) ==
    IF inventory # << >> THEN Some(0) ELSE None

\* inventory.iter().position(|item| item is Key of required_type): Option<usize>
key_index(inventory, required_type) ==
    IF has_key(inventory, required_type)
    THEN Some((CHOOSE j \in 1..Len(inventory) :
                 /\ inventory[j] = Key(required_type)
                 /\ \A i \in 1..(j - 1) : inventory[i] # Key(required_type)) - 1)
    ELSE None

\* The key found stays in the inventory.
consume_key_kept(e, agent_id, index) == e

\* Every key equal to the one found is dropped, not just the one at index.
consume_key_all(e, agent_id, index) ==
    [e EXCEPT !.agents[agent_id].inventory =
        SelectSeq(@, LAMBDA item : item # e.agents[agent_id].inventory[index + 1])]

\* agent_state.inventory.remove(index)
consume_key(e, agent_id, index) ==
    [e EXCEPT !.agents[agent_id].inventory = VecRemove(@, index)]

\* The item is pushed to the inventory and stays on the grid.
collect_item_keeps_item(e, agent_id, target_pos, item) ==
    [e EXCEPT !.agents[agent_id].inventory = Append(@, item)]

\* agent_state.inventory.push(item.clone()); self.items[target_pos] = None
collect_item(e, agent_id, target_pos, item) ==
    [e EXCEPT !.agents[agent_id].inventory = Append(@, item),
              !.items = IndexSet(e.items, target_pos, None)]

\* A key is collected even when one of its colour is already held.
pickup_step_duplicate_keys(e, agent_id, target_pos) ==
    LET item_pos == Index(e.items, target_pos)
    IN  IF item_pos.some /\ item_pos.value # Goal
        THEN collect_item(e, agent_id, target_pos, item_pos.value)
        ELSE e

\* The Chip and Key arms of the match on the target cell's item.
pickup_step(e, agent_id, target_pos) ==
    LET item_pos == Index(e.items, target_pos)
    IN  IF ~item_pos.some THEN e
        ELSE IF item_pos.value = Chip
        THEN collect_item(e, agent_id, target_pos, item_pos.value)
        ELSE IF item_pos.value.tag = "Key"
        THEN IF ~has_key(e.agents[agent_id].inventory, item_pos.value.key_type)
             THEN collect_item(e, agent_id, target_pos, item_pos.value)
             ELSE e
        ELSE e

\* The origin cell is left marked.
move_agent_keeps_origin(e, agent_id, current_pos, target_pos) ==
    [e EXCEPT !.agent_locations = IndexSet(e.agent_locations, target_pos, Some(agent_id)),
              !.agents[agent_id].position = target_pos]

\* self.agent_locations[current_pos] = None;
\* self.agent_locations[target_pos] = Some(agent_id);
\* agent_state.position = target_pos
move_agent(e, agent_id, current_pos, target_pos) ==
    [e EXCEPT !.agent_locations =
                  IndexSet(IndexSet(e.agent_locations, current_pos, None),
                           target_pos, Some(agent_id)),
              !.agents[agent_id].position = target_pos]

\* The opened door forgets the colour it required.
open_door_untyped(e, target_pos, door_type) ==
    [e EXCEPT !.terrain = IndexSet(e.terrain, target_pos, Door(TRUE, None))]

\* *cell = CellType::Door { open: true, door_type }
open_door(e, target_pos, door_type) ==
    [e EXCEPT !.terrain = IndexSet(e.terrain, target_pos, Door(TRUE, door_type))]

Occupied == Failure("Target position is occupied by another agent.")

\* The arm for a closed door that requires required_type, once the target
\* cell is known to be unoccupied: consume the key, open the door, move.
locked_door_moves_first(e, agent_id, current_pos, target_pos, required_type) ==
    LET index == key_index(e.agents[agent_id].inventory, required_type)
        moved == move_agent(e, agent_id, current_pos, target_pos)
    IN  IF index.some
        THEN [env |-> open_door(consume_key(moved, agent_id, index.value),
                                target_pos, Some(required_type)),
              result |-> Success]
        ELSE [env |-> moved, result |-> Failure("Agent lacks the required key type.")]

locked_door_step(e, agent_id, current_pos, target_pos, required_type) ==
    LET index == key_index(e.agents[agent_id].inventory, required_type)
    IN  IF index.some
        THEN [env |-> move_agent(
                        open_door(consume_key(e, agent_id, index.value),
                                  target_pos, Some(required_type)),
                        agent_id, current_pos, target_pos),
              result |-> Success]
        ELSE [env |-> e, result |-> Failure("Agent lacks the required key type.")]

\* The match on the target cell's terrain.
terrain_step(e, agent_id, current_pos, target_pos) ==
    LET cell == Index(e.terrain, target_pos)
        occupied == Index(e.agent_locations, target_pos).some
    IN  IF cell = Wall
        THEN [env |-> e, result |-> Failure("Cannot move into a wall.")]
        ELSE IF cell.tag = "Door" /\ cell.open
        THEN IF occupied THEN [env |-> e, result |-> Occupied]
             ELSE [env |-> move_agent(e, agent_id, current_pos, target_pos),
                   result |-> Success]
        ELSE IF cell.tag = "Door" /\ ~cell.door_type.some
        THEN IF occupied THEN [env |-> e, result |-> Occupied]
             ELSE [env |-> move_agent(open_door(e, target_pos, None),
                                      agent_id, current_pos, target_pos),
                   result |-> Success]
        ELSE IF cell.tag = "Door"
        THEN IF occupied THEN [env |-> e, result |-> Occupied]
             ELSE locked_door_step(e, agent_id, current_pos, target_pos,
                                   cell.door_type.value)
        ELSE \* Floor
             IF occupied THEN [env |-> e, result |-> Occupied]
             ELSE [env |-> move_agent(e, agent_id, current_pos, target_pos),
                   result |-> Success]

\* A failed move gives back what it picked up.
resolve_target_rollback(e, agent_id, current_pos, target_pos) ==
    IF Index(e.items, target_pos) = Some(Goal)
    THEN [env |-> move_agent(e, agent_id, current_pos, target_pos), result |-> Win]
    ELSE LET r == terrain_step(pickup_step(e, agent_id, target_pos),
                               agent_id, current_pos, target_pos)
         IN  IF r.result.tag = "Failure" THEN [env |-> e, result |-> r.result] ELSE r

\* The Goal arm goes through the terrain and occupancy checks like any move.
resolve_target_goal_checked(e, agent_id, current_pos, target_pos) ==
    LET r == terrain_step(pickup_step(e, agent_id, target_pos),
                          agent_id, current_pos, target_pos)
    IN  IF Index(e.items, target_pos) = Some(Goal) /\ r.result = Success
        THEN [env |-> r.env, result |-> Win]
        ELSE r

\* An in-bounds target: the item on the target cell (Goal returns Win at
\* once), then the terrain of the target cell.
resolve_target(e, agent_id, current_pos, target_pos) ==
    IF Index(e.items, target_pos) = Some(Goal)
    THEN [env |-> move_agent(e, agent_id, current_pos, target_pos), result |-> Win]
    ELSE terrain_step(pickup_step(e, agent_id, target_pos),
                      agent_id, current_pos, target_pos)

\* The Action::Move arm.
move_action(e, agent_id, dx, dy) ==
    LET current_pos == e.agents[agent_id].position
        target_x == wrapping_add_signed(current_pos.x, dx)
        target_y == wrapping_add_signed(current_pos.y, dy)
    IN  IF ~is_valid(e.terrain, target_x, target_y)
        THEN [env |-> e, result |-> Failure("Target position is out of bounds.")]
        ELSE resolve_target(e, agent_id, current_pos, Position(target_x, target_y))

\* Wait is resolved as a move by (0, 0).
process_action_wait_as_move(e, agent_id, action) ==
    IF agent_id \notin DOMAIN e.agents
    THEN [env |-> e, result |-> Failure("Agent not found.")]
    ELSE IF action = Wait THEN move_action(e, agent_id, 0, 0)
    ELSE move_action(e, agent_id, action.dx, action.dy)

process_action(e, agent_id, action) ==
    IF agent_id \notin DOMAIN e.agents
    THEN [env |-> e, result |-> Failure("Agent not found.")]
    ELSE IF action = Wait
    THEN [env |-> e, result |-> Success]
    ELSE move_action(e, agent_id, action.dx, action.dy)

(***************************************************************************)
(* agent.rs: RandomWalker::get_action.  Each call draws dx and dy from     *)
(* -1..=1; the draw of the seeded generator is an input of the model.      *)
(***************************************************************************)
RandomWalker(id) == [kind |-> "RandomWalker", id |-> id]

RandomWalker_get_action(draw) ==
    IF draw[1] = 0 /\ draw[2] = 0 THEN Wait ELSE Move(draw[1], draw[2])

\* process_turn as one call: agent_ids is the order in which agents.keys()
\* yielded the ids, actions[id] the action that get_action of id's behaviour
\* returns when asked (a RandomWalker's does not depend on the view).
RECURSIVE process_turn(_, _, _)
process_turn(e, agent_ids, actions) ==
    IF agent_ids = << >> THEN [env |-> e, result |-> Success]
    ELSE LET r == process_action(e, Head(agent_ids), actions[Head(agent_ids)])
         IN  IF r.result = Win THEN [env |-> r.env, result |-> Win]
             ELSE process_turn(r.env, Tail(agent_ids), actions)

\* The orders in which HashMap::keys may yield the keys in ids.
KeyOrders(ids) ==
    {o \in [1..Cardinality(ids) -> ids] : \A i \in ids : \E j \in DOMAIN o : o[j] = i}

(***************************************************************************)
(* agent.rs: PlanningAgent.  The behaviour keeps current_plan, the queue   *)
(* of positions still to visit.  Two things in it are left open by the     *)
(* library types it uses, and each is a choice here: which of several      *)
(* frontier entries of equal priority the BinaryHeap pops, and the order   *)
(* in which the HashMap of key positions is iterated.  Every operator that *)
(* depends on them yields the set of its possible results.                 *)
(***************************************************************************)
PlanningAgent(id) == [kind |-> "PlanningAgent", id |-> id, current_plan |-> << >>]

manhattan_distance(a, b) ==
    (IF a.x > b.x THEN a.x - b.x ELSE b.x - a.x)
        + (IF a.y > b.y THEN a.y - b.y ELSE b.y - a.y)

\* A step is made in the direction of dst however far it is.
position_to_action_towards(src, dst) ==
    LET sign(d) == IF d > 0 THEN 1 ELSE IF d < 0 THEN -1 ELSE 0
        dx == sign(dst.x - src.x)
        dy == sign(dst.y - src.y)
    IN  IF dx = 0 /\ dy = 0 THEN Wait ELSE Move(dx, dy)

position_to_action(src, dst) ==
    LET dx == dst.x - src.x
        dy == dst.y - src.y
    IN  IF <<dx, dy>> \in {<<0, 1>>, <<0, -1>>, <<1, 0>>, <<-1, 0>>}
        THEN Move(dx, dy)
        ELSE Wait

\* usize::checked_add_signed: Option<usize>
checked_add_signed(a, d) ==
    IF a + d < 0 \/ a + d >= UsizeModulus THEN None ELSE Some(a + d)

\* The step to the left is missing.
DirectionsWithoutLeft == << <<0, 1>>, <<0, -1>>, <<1, 0>> >>

\* Down, Up, Right, Left
Directions == << <<0, 1>>, <<0, -1>>, <<1, 0>>, <<-1, 0>> >>

\* The agent grid is not consulted: occupied cells are taken to be free.
valid_neighbor_through_agents(position, d, view, keys_held) ==
    LET nx == checked_add_signed(position.x, d[1])
        ny == checked_add_signed(position.y, d[2])
    IN  /\ nx.some /\ ny.some
        /\ is_valid(view.terrain_grid, nx.value, ny.value)
        /\ LET cell == get(view.terrain_grid, nx.value, ny.value).value
           IN  /\ cell # Wall
               /\ (cell.tag = "Door" /\ ~cell.open /\ cell.door_type.some)
                      => cell.door_type.value \in keys_held

\* The keys held are not consulted: every door is taken to be passable.
valid_neighbor_any_door(position, d, view, keys_held) ==
    LET nx == checked_add_signed(position.x, d[1])
        ny == checked_add_signed(position.y, d[2])
    IN  /\ nx.some /\ ny.some
        /\ is_valid(view.terrain_grid, nx.value, ny.value)
        /\ ~get(view.agent_location_grid, nx.value, ny.value).value.some
        /\ get(view.terrain_grid, nx.value, ny.value).value # Wall

\* Whether the step d from position passes every check of get_valid_neighbors.
valid_neighbor(position, d, view, keys_held) ==
    LET nx == checked_add_signed(position.x, d[1])
        ny == checked_add_signed(position.y, d[2])
    IN  /\ nx.some /\ ny.some
        /\ is_valid(view.terrain_grid, nx.value, ny.value)
        /\ ~get(view.agent_location_grid, nx.value, ny.value).value.some
        /\ LET cell == get(view.terrain_grid, nx.value, ny.value).value
           IN  /\ cell # Wall
               /\ (cell.tag = "Door" /\ ~cell.open /\ cell.door_type.some)
                      => cell.door_type.value \in keys_held

get_valid_neighbors(position, view, keys_held) ==
    LET steps == SelectSeq(Directions,
                           LAMBDA d : valid_neighbor(position, d, view, keys_held))
    IN  [i \in 1..Len(steps) |->
            Position(position.x + steps[i][1], position.y + steps[i][2])]

get_keys_held(view) ==
    {view.agent_state.inventory[i].key_type :
        i \in {j \in 1..Len(view.agent_state.inventory) :
                  view.agent_state.inventory[j].tag = "Key"}}

\* Grid::enumerate: the positions of g in the order of its cells.
enumerate(g) == [i \in 1..(g.width * g.height) |-> index_to_coords(g, i - 1)]

\* The match arm tests for the wrong item.
find_chips_matching_goal(view) ==
    SelectSeq(enumerate(view.item_grid),
              LAMBDA pos : Index(view.item_grid, pos) = Some(Goal))

find_chips(view) ==
    SelectSeq(enumerate(view.item_grid),
              LAMBDA pos : Index(view.item_grid, pos) = Some(Chip))

find_goals(view) ==
    SelectSeq(enumerate(view.item_grid),
              LAMBDA pos : Index(view.item_grid, pos) = Some(Goal))

\* HashMap<DoorKeyType, Vec<Position>>
find_keys(view) ==
    LET present == {k \in DoorKeyType :
                      \E pos \in Positions(view.item_grid) :
                          Index(view.item_grid, pos) = Some(Key(k))}
    IN  [k \in present |->
            SelectSeq(enumerate(view.item_grid),
                      LAMBDA pos : Index(view.item_grid, pos) = Some(Key(k)))]

\* The loop over valid_neighbors for the popped position current: a
\* neighbour not yet costed, or reached more cheaply, is costed, pushed and
\* given current as its predecessor.  search is [frontier, came_from,
\* cost_so_far]; the frontier is the set of its PrioritizedItems.
RECURSIVE relax_neighbors(_, _, _, _)
relax_neighbors(search, current, neighbors, goal) ==
    IF neighbors = << >> THEN search
    ELSE LET neighbor == Head(neighbors)
             new_cost == search.cost_so_far[current] + 1
             better == \/ neighbor \notin DOMAIN search.cost_so_far
                       \/ new_cost < search.cost_so_far[neighbor]
             pushed ==
                 [frontier |-> search.frontier \cup
                      {[priority |-> new_cost + manhattan_distance(neighbor, goal),
                        position |-> neighbor]},
                  came_from |-> MapInsert(search.came_from, neighbor, current),
                  cost_so_far |-> MapInsert(search.cost_so_far, neighbor, new_cost)]
         \* the search so far is worked out once, then handed on
         IN  CHOOSE relaxed \in
                 {relax_neighbors(next, current, Tail(neighbors), goal)
                     : next \in {IF better THEN pushed ELSE search}} : TRUE

\* Reconstruct path: from current back to start through came_from, reversed.
RECURSIVE reconstruct_path(_, _, _)
reconstruct_path(came_from, start, current) ==
    IF current = start THEN Some(<<start>>)
    ELSE IF current \notin DOMAIN came_from THEN None
    ELSE LET rest == reconstruct_path(came_from, start, came_from[current])
         IN  IF rest.some THEN Some(Append(rest.value, current)) ELSE None

RECURSIVE a_star_loop(_, _, _, _, _)

\* The ordering of PrioritizedItem is not reversed: the heap yields an item
\* of greatest priority.
a_star_loop_max_heap(search, start, goal, view, keys_held) ==
    IF search.frontier = {} THEN {None}
    ELSE LET greatest == CHOOSE q \in {f.priority : f \in search.frontier} :
                             \A f \in search.frontier : q >= f.priority
         IN  UNION {
               IF item.position = goal
               THEN {reconstruct_path(search.came_from, start, goal)}
               ELSE a_star_loop(
                        relax_neighbors(
                            [search EXCEPT !.frontier = @ \ {item}],
                            item.position,
                            get_valid_neighbors(item.position, view, keys_held),
                            goal),
                        start, goal, view, keys_held)
               : item \in {f \in search.frontier : f.priority = greatest}}

\* The while loop of a_star_path: the results it can end with.
a_star_loop(search, start, goal, view, keys_held) ==
    IF search.frontier = {} THEN {None}
    ELSE LET least == CHOOSE q \in {f.priority : f \in search.frontier} :
                          \A f \in search.frontier : q <= f.priority
         IN  UNION {
               IF item.position = goal
               THEN {reconstruct_path(search.came_from, start, goal)}
               ELSE UNION {a_star_loop(next, start, goal, view, keys_held)
                           : next \in {relax_neighbors(
                                 [search EXCEPT !.frontier = @ \ {item}],
                                 item.position,
                                 get_valid_neighbors(item.position, view, keys_held),
                                 goal)}}
               : item \in {f \in search.frontier : f.priority = least}}

\* The set of Option<Vec<Position>> that a_star_path can return.
a_star_path(start, goal, view, keys_held) ==
    UNION {a_star_loop([frontier |-> {[priority |-> 0, position |-> s]},
                        came_from |-> << >>,
                        cost_so_far |-> MapInsert(<< >>, s, 0)],
                       s, g, v, k)
           : s \in {start}, g \in {goal}, v \in {view}, k \in {keys_held}}

\* The loop of plan_to_nearest_target over targets, entered with best_plan
\* and min_length: the plans it can end with.
RECURSIVE nearest_plan(_, _, _, _, _, _)
nearest_plan(start, targets, view, keys_held, best_plan, min_length) ==
    IF targets = << >> THEN {best_plan}
    ELSE UNION {
           IF plan.some /\ Len(plan.value) < min_length
           THEN nearest_plan(start, Tail(targets), view, keys_held,
                             plan, Len(plan.value))
           ELSE nearest_plan(start, Tail(targets), view, keys_held,
                             best_plan, min_length)
           : plan \in a_star_path(start, Head(targets), view, keys_held)}

\* The targets are tried from the last to the first.
plan_to_nearest_target_backwards(start, targets, view, keys_held) ==
    nearest_plan(start,
                 [i \in 1..Len(targets) |-> targets[Len(targets) + 1 - i]],
                 view, keys_held, None, UsizeModulus - 1)

plan_to_nearest_target(start, targets, view, keys_held) ==
    nearest_plan(start, targets, view, keys_held, None, UsizeModulus - 1)

\* The positions visited by the loops of plan_to_nearest_reachable_key when
\* the map yields the key types in the order key_types.
RECURSIVE key_targets(_, _, _)
key_targets(key_locations, key_types, keys_held) ==
    IF key_types = << >> THEN << >>
    ELSE (IF Head(key_types) \in keys_held THEN << >>
          ELSE key_locations[Head(key_types)])
         \o key_targets(key_locations, Tail(key_types), keys_held)

\* Every key type is skipped as if it were held.
plan_to_nearest_reachable_key_skipping_all(start, view, keys_held) == {None}

plan_to_nearest_reachable_key(start, view, keys_held) ==
    LET key_locations == find_keys(view)
    IN  UNION {nearest_plan(start,
                            key_targets(key_locations, key_types, keys_held),
                            view, keys_held, None, UsizeModulus - 1)
               : key_types \in KeyOrders(DOMAIN key_locations)}

\* The plan is queued whole, so the first position popped is the agent's own.
follow_plan_from_start(behavior, current_pos, plan) ==
    [action |-> position_to_action(current_pos, plan[1]),
     behavior |-> [behavior EXCEPT !.current_plan = Tail(plan)]]

\* The waypoint whose step is emitted stays in the queue.
follow_plan_keeps_front(behavior, current_pos, plan) ==
    [action |-> position_to_action(current_pos, plan[2]),
     behavior |-> [behavior EXCEPT !.current_plan = Tail(plan)]]

\* self.current_plan.extend(plan.into_iter().skip(1)), then pop_front: the
\* action and the behaviour afterwards.  plan has more than one position.
follow_plan(behavior, current_pos, plan) ==
    [action |-> position_to_action(current_pos, plan[2]),
     behavior |-> [behavior EXCEPT !.current_plan = Tail(Tail(plan))]]

\* The goals are tried whenever the chips yield no usable plan.
PlanningAgent_get_action_goals_after_chips(behavior, view) ==
    LET current_pos == view.location
        keys_held == get_keys_held(view)
        usable(plan) == plan.some /\ Len(plan.value) > 1
        for_a_key ==
            {IF usable(key_plan)
             THEN follow_plan(behavior, current_pos, key_plan.value)
             ELSE [action |-> Wait, behavior |-> behavior]
             : key_plan \in plan_to_nearest_reachable_key(current_pos, view, keys_held)}
        for_a_goal ==
            UNION {IF usable(plan)
                   THEN {follow_plan(behavior, current_pos, plan.value)}
                   ELSE for_a_key
                   : plan \in plan_to_nearest_target(current_pos, find_goals(view),
                                                     view, keys_held)}
    IN  IF behavior.current_plan # << >>
        THEN {[action |-> position_to_action(current_pos, Head(behavior.current_plan)),
               behavior |-> [behavior EXCEPT !.current_plan = Tail(@)]]}
        ELSE UNION {IF usable(plan)
                    THEN {follow_plan(behavior, current_pos, plan.value)}
                    ELSE for_a_goal
                    : plan \in plan_to_nearest_target(current_pos, find_chips(view),
                                                      view, keys_held)}

\* PlanningAgent::get_action: the set of [action, behavior] it can end with.
PlanningAgent_get_action(behavior, view) ==
    LET current_pos == view.location
        keys_held == get_keys_held(view)
        chips == find_chips(view)
        primary == IF chips # << >>
                   THEN plan_to_nearest_target(current_pos, chips, view, keys_held)
                   ELSE plan_to_nearest_target(current_pos, find_goals(view),
                                               view, keys_held)
        usable(plan) == plan.some /\ Len(plan.value) > 1
        \* 3. and 4.: a key, or nothing
        for_a_key ==
            {IF usable(key_plan)
             THEN follow_plan(behavior, current_pos, key_plan.value)
             ELSE [action |-> Wait, behavior |-> behavior]
             : key_plan \in plan_to_nearest_reachable_key(current_pos, view, keys_held)}
    IN  IF behavior.current_plan # << >>
        THEN {[action |-> position_to_action(current_pos, Head(behavior.current_plan)),
               behavior |-> [behavior EXCEPT !.current_plan = Tail(@)]]}
        ELSE UNION {IF usable(plan)
                    THEN {follow_plan(behavior, current_pos, plan.value)}
                    ELSE for_a_key
                    : plan \in primary}

\* What the behaviour of an agent can answer when asked with view: the
\* action, and the behaviour as the call leaves it.
get_action(behavior, view) ==
    IF behavior.kind = "PlanningAgent"
    THEN PlanningAgent_get_action(behavior, view)
    ELSE {[action |-> RandomWalker_get_action(draw), behavior |-> behavior]
          : draw \in (-1..1) \X (-1..1)}

(***************************************************************************)
(* The state: the fields of Environment, the last call made on it with its *)
(* result, the environment as it was when that call was made, the          *)
(* position of process_turn in its loop over agent_ids, the world being    *)
(* explored, the number of items added to it, the ids that                 *)
(* reserve_entity_id has returned, and the agents that the process_turn    *)
(* call in progress (or just returned) has asked so far, with the result   *)
(* of each one's action and whether the action changed the environment.    *)
(* Any other call forgets the last turn.                                   *)
(* twin is a second run of the program, given the same calls: its          *)
(* environment and what its last process_turn returned.  turn_count is the *)
(* number of process_turn calls that have returned since another call     *)
(* last changed the environment.                                           *)
(***************************************************************************)
VARIABLES terrain, items, agent_locations, agents, agent_behaviors,
          next_entity_id, last, pre, turn, scenario, items_added, reserved,
          turn_log, twin, turn_count

vars == <<terrain, items, agent_locations, agents, agent_behaviors,
          next_entity_id, last, pre, turn, scenario, items_added, reserved,
          turn_log, twin, turn_count>>

env == [terrain |-> terrain, items |-> items, agent_locations |-> agent_locations,
        agents |-> agents, agent_behaviors |-> agent_behaviors,
        next_entity_id |-> next_entity_id]

Becomes(e) ==
    /\ terrain' = e.terrain
    /\ items' = e.items
    /\ agent_locations' = e.agent_locations
    /\ agents' = e.agents
    /\ agent_behaviors' = e.agent_behaviors
    /\ next_entity_id' = e.next_entity_id

(***************************************************************************)
(* The worlds explored.  Each is a map handed to the loader, the cells     *)
(* turned into keyless doors through the public terrain field (no map code *)
(* produces one), and the inputs offered to the calls made on it: the ids  *)
(* and inventories of the agents, the add_item calls (on a door cell, on   *)
(* the cell of a loaded key, on a wall and outside the grid), the number   *)
(* of reserve_entity_id calls, whether process_turn is called, the kinds   *)
(* of behaviour given to the agents, whether agents are placed on the      *)
(* map's start only, and up to which number process_turn calls are         *)
(* counted.                                                                *)
(***************************************************************************)
\* sequences over S of length at most n
RECURSIVE SeqsUpTo(_, _)
SeqsUpTo(S, n) ==
    IF n = 0 THEN {<< >>}
    ELSE LET shorter == SeqsUpTo(S, n - 1)
         IN  shorter \cup {Append(q, x) : q \in {w \in shorter : Len(w) = n - 1}, x \in S}

Scenarios ==
    [duo   |-> [map |-> << <<"ST", "BL">>,
                           <<"KR", "PL">> >>,
                plain_doors |-> {},
                ids |-> 0..MaxAgentId,
                inventories |-> {<< >>},
                add_item_calls |-> {},
                reserve_calls |-> 0,
                turns |-> TRUE,
                behaviors |-> {"RandomWalker"},
                at_start |-> FALSE,
                counted_turns |-> 0],
     doors |-> [map |-> << <<"ST", "DR", "BL">>,
                           <<"KG", "WL", "BL">> >>,
                plain_doors |-> {Position(2, 0)},
                ids |-> {0},
                inventories |-> SeqsUpTo({Key("Red"), Chip}, MaxInitInventory),
                add_item_calls |->
                    {[position |-> pos, item |-> item] :
                        pos \in {Position(1, 0), Position(0, 1), Position(1, 1),
                                 Position(3, 0)},
                        item \in {Key("Red"), Chip, Goal}},
                reserve_calls |-> 0,
                turns |-> FALSE,
                behaviors |-> {"RandomWalker"},
                at_start |-> FALSE,
                counted_turns |-> 0],
     \* the entity id counter, with ids at the top of the word
     counter |-> [map |-> << <<"ST", "BL", "BL">> >>,
                  plain_doors |-> {},
                  ids |-> {0, UsizeModulus - 2, UsizeModulus - 1},
                  inventories |-> {<< >>},
                  add_item_calls |-> {},
                  reserve_calls |-> MaxReserve,
                  turns |-> FALSE,
                  behaviors |-> {"RandomWalker"},
                  at_start |-> FALSE,
                  counted_turns |-> 0],
     \* a planning agent put on the start of an open map, as the front end
     \* does, with the goal in the opposite corner
     plan |-> [map |-> << <<"ST", "BL", "BL">>,
                          <<"BL", "BL", "BL">>,
                          <<"BL", "BL", "PL">> >>,
               plain_doors |-> {},
               ids |-> {0},
               inventories |-> {<< >>},
               add_item_calls |-> {},
               reserve_calls |-> 0,
               turns |-> TRUE,
               behaviors |-> {"PlanningAgent"},
               at_start |-> TRUE,
               counted_turns |-> MaxTurns],
     \* the same map with a chip in the middle
     chip |-> [map |-> << <<"ST", "BL", "BL">>,
                          <<"BL", "CH", "BL">>,
                          <<"BL", "BL", "PL">> >>,
               plain_doors |-> {},
               ids |-> {0},
               inventories |-> {<< >>},
               add_item_calls |-> {},
               reserve_calls |-> 0,
               turns |-> TRUE,
               behaviors |-> {"PlanningAgent"},
               at_start |-> TRUE,
               counted_turns |-> MaxTurns],
     \* a green door between the start and both the goal and the green key
     locked |-> [map |-> << <<"ST", "WL", "KG">>,
                            <<"BL", "DG", "PL">> >>,
                 plain_doors |-> {},
                 ids |-> {0},
                 inventories |-> {<< >>},
                 add_item_calls |-> {},
                 reserve_calls |-> 0,
                 turns |-> TRUE,
                 behaviors |-> {"PlanningAgent"},
                 at_start |-> TRUE,
                 counted_turns |-> MaxTurns],
     \* one green key and two green doors on the way to the goal
     twodoors |-> [map |-> << <<"ST", "KG", "DG", "DG", "PL">> >>,
                   plain_doors |-> {},
                   ids |-> {0},
                   inventories |-> {<< >>},
                   add_item_calls |-> {},
                   reserve_calls |-> 0,
                   turns |-> TRUE,
                   behaviors |-> {"PlanningAgent"},
                   at_start |-> TRUE,
                   counted_turns |-> MaxTurns],
     \* the same with a floor cell more before the goal
     longhall |-> [map |-> << <<"ST", "KG", "DG", "DG", "BL", "PL">> >>,
                   plain_doors |-> {},
                   ids |-> {0},
                   inventories |-> {<< >>},
                   add_item_calls |-> {},
                   reserve_calls |-> 0,
                   turns |-> TRUE,
                   behaviors |-> {"PlanningAgent"},
                   at_start |-> TRUE,
                   counted_turns |-> MaxTurns],
     \* the green key on one side of the start, a green door and the goal
     \* on the other
     keydoor |-> [map |-> << <<"KG", "ST", "DG", "PL">> >>,
                  plain_doors |-> {},
                  ids |-> {0},
                  inventories |-> {<< >>},
                  add_item_calls |-> {},
                  reserve_calls |-> 0,
                  turns |-> TRUE,
                  behaviors |-> {"PlanningAgent"},
                  at_start |-> TRUE,
                  counted_turns |-> MaxTurns],
     \* the goal on the way to the chip
     goalfirst |-> [map |-> << <<"ST", "PL", "CH">> >>,
                    plain_doors |-> {},
                    ids |-> {0},
                    inventories |-> {<< >>},
                    add_item_calls |-> {},
                    reserve_calls |-> 0,
                    turns |-> TRUE,
                    behaviors |-> {"PlanningAgent"},
                    at_start |-> TRUE,
                    counted_turns |-> MaxTurns]]

\* terrain[pos] = Door { open: false, door_type: None } for each pos of doors
RECURSIVE with_plain_doors(_, _)
with_plain_doors(e, doors) ==
    IF doors = {} THEN e
    ELSE LET pos == CHOOSE d \in doors : TRUE
         IN  with_plain_doors(
                 [e EXCEPT !.terrain = IndexSet(e.terrain, pos, Door(FALSE, None))],
                 doors \ {pos})

InitialEnvironment(s) ==
    with_plain_doors(load_environment_from_string(Scenarios[s].map).env,
                     Scenarios[s].plain_doors)

\* Positions handed to add_agent: every cell and one outside, or the start
\* position that the loader returned.
OfferedPositions ==
    IF Scenarios[scenario].at_start
    THEN {load_environment_from_string(Scenarios[scenario].map).start}
    ELSE Positions(terrain) \cup {Position(terrain.width, 0)}

\* RandomWalker::new, PlanningAgent::new
NewBehavior(kind, id) ==
    IF kind = "PlanningAgent" THEN PlanningAgent(id) ELSE RandomWalker(id)

\* The count of process_turn calls after one more has returned.
Counted(n) ==
    IF n < Scenarios[scenario].counted_turns THEN n + 1
    ELSE Scenarios[scenario].counted_turns

Idle(result) == [running |-> FALSE, agent_ids |-> << >>, result |-> result]
Running(agent_ids) == [running |-> TRUE, agent_ids |-> agent_ids, result |-> None]

Init ==
    /\ scenario \in DOMAIN Scenarios
    /\ load_environment_from_string(Scenarios[scenario].map).ok
    /\ terrain = InitialEnvironment(scenario).terrain
    /\ items = InitialEnvironment(scenario).items
    /\ agent_locations = InitialEnvironment(scenario).agent_locations
    /\ agents = InitialEnvironment(scenario).agents
    /\ agent_behaviors = InitialEnvironment(scenario).agent_behaviors
    /\ next_entity_id = InitialEnvironment(scenario).next_entity_id
    /\ last = [op |-> "load_environment_from_string"]
    /\ pre = InitialEnvironment(scenario)
    /\ turn = Idle(None)
    /\ items_added = 0
    /\ reserved = << >>
    /\ turn_log = << >>
    /\ twin = [env |-> InitialEnvironment(scenario), result |-> None]
    /\ turn_count = 0

ReserveEntityId ==
    LET r == reserve_entity_id(env)
    IN  /\ ~turn.running
        /\ Len(reserved) < Scenarios[scenario].reserve_calls
        /\ Becomes(r.env)
        /\ last' = [op |-> "reserve_entity_id", id |-> r.id]
        /\ pre' = env
        /\ reserved' = Append(reserved, r.id)
        /\ turn' = Idle(None)
        /\ turn_log' = << >>
        /\ turn_count' = 0
        /\ UNCHANGED <<scenario, items_added, twin>>

AddItem ==
    \E call \in Scenarios[scenario].add_item_calls :
        LET r == add_item(env, call.position, call.item)
        IN  /\ ~turn.running
            /\ items_added < MaxAddItem
            /\ Becomes(r.env)
            /\ last' = [op |-> "add_item", position |-> call.position,
                        item |-> call.item, ok |-> r.ok]
            /\ pre' = env
            /\ items_added' = IF r.ok THEN items_added + 1 ELSE items_added
            /\ turn' = Idle(None)
            /\ turn_log' = << >>
            /\ turn_count' = IF r.ok THEN 0 ELSE turn_count
            /\ UNCHANGED <<scenario, reserved, twin>>

\* Whether add_agent fails does not depend on the inventory handed to it,
\* so a failing call is explored with the empty inventory only.
AddAgent ==
    \E position \in OfferedPositions, id \in Scenarios[scenario].ids,
       kind \in Scenarios[scenario].behaviors :
      \E initial_inventory \in
            IF add_agent(env, position, NewBehavior(kind, id), << >>).ok
            THEN Scenarios[scenario].inventories ELSE {<< >>} :
        LET r == add_agent(env, position, NewBehavior(kind, id), initial_inventory)
        IN  /\ ~turn.running
            /\ Becomes(r.env)
            /\ last' = [op |-> "add_agent", position |-> position, id |-> id,
                        initial_inventory |-> initial_inventory, ok |-> r.ok]
            /\ pre' = env
            /\ turn' = Idle(None)
            /\ turn_log' = << >>
            /\ turn_count' = IF r.ok THEN 0 ELSE turn_count
            /\ UNCHANGED <<scenario, items_added, reserved, twin>>

Actions == {Wait} \cup {Move(dx, dy) : dx \in -1..1, dy \in -1..1}

\* A direct call of the public process_action.
ProcessAction ==
    \E agent_id \in Scenarios[scenario].ids, action \in Actions :
        LET r == process_action(env, agent_id, action)
        IN  /\ ~turn.running
            /\ Becomes(r.env)
            /\ last' = [op |-> "process_action", agent_id |-> agent_id,
                        action |-> action, result |-> r.result]
            /\ pre' = env
            /\ turn' = Idle(None)
            /\ turn_log' = << >>
            /\ turn_count' = 0
            /\ UNCHANGED <<scenario, items_added, reserved, twin>>

\* The view is built from the environment as the call before the last left it.
StaleView(agent_id) ==
    IF agent_id \in DOMAIN pre.agents
    THEN [agent_state |-> pre.agents[agent_id],
          location |-> pre.agents[agent_id].position,
          terrain_grid |-> pre.terrain,
          item_grid |-> pre.items,
          agent_location_grid |-> pre.agent_locations]
    ELSE [agent_state |-> agents[agent_id],
          location |-> agents[agent_id].position,
          terrain_grid |-> terrain,
          item_grid |-> items,
          agent_location_grid |-> agent_locations]

\* The EnvironmentView that the loop of process_turn builds for agent_id.
EnvironmentView(agent_id) ==
    [agent_state |-> agents[agent_id],
     location |-> agents[agent_id].position,
     terrain_grid |-> terrain,
     item_grid |-> items,
     agent_location_grid |-> agent_locations]

\* A Win is treated like Success: the loop goes on.
loop_after_ignoring_win(agent_ids, result) ==
    IF Tail(agent_ids) = << >>
    THEN Idle(Some(IF result = Win THEN Win ELSE Success))
    ELSE Running(Tail(agent_ids))

\* A Failure ends the turn and is returned.
loop_after_returning_failure(agent_ids, result) ==
    IF result = Win THEN Idle(Some(Win))
    ELSE IF result.tag = "Failure" THEN Idle(Some(result))
    ELSE IF Tail(agent_ids) = << >> THEN Idle(Some(Success))
    ELSE Running(Tail(agent_ids))

\* The match on the result of the action of the head of agent_ids: Win
\* returns at once, Success and Failure go on to the next agent, and
\* Success is returned after the last one.
loop_after(agent_ids, result) ==
    IF result = Win THEN Idle(Some(Win))
    ELSE IF Tail(agent_ids) = << >> THEN Idle(Some(Success))
    ELSE Running(Tail(agent_ids))

\* process_turn, up to its loop: agent_ids is collected from the HashMap.
\* With no agent registered the loop body never runs and Success is returned.
BeginTurn ==
    \E agent_ids \in KeyOrders(DOMAIN agents) :
        /\ ~turn.running
        /\ Scenarios[scenario].turns
        /\ turn' = IF agent_ids = << >> THEN Idle(Some(Success)) ELSE Running(agent_ids)
        /\ turn_log' = << >>
        /\ turn_count' = IF agent_ids = << >> THEN Counted(turn_count) ELSE turn_count
        /\ UNCHANGED <<terrain, items, agent_locations, agents, agent_behaviors,
                       next_entity_id, last, pre, scenario, items_added, reserved,
                       twin>>

\* One iteration of the loop of process_turn: the view is built, the next
\* agent's behaviour is asked for its action (which may change the
\* behaviour), the action is applied, and the result inspected.  Each of
\* agent_id, view, asked (the environment once the behaviour has answered)
\* and r (what process_action returns) is worked out once.
TurnStep ==
    /\ turn.running
    /\ \E agent_id \in {Head(turn.agent_ids)} :
       \E view \in {EnvironmentView(agent_id)} :
       \E decision \in get_action(agent_behaviors[agent_id], view) :
       \E asked \in {[env EXCEPT !.agent_behaviors[agent_id] = decision.behavior]} :
       \E r \in {process_action(asked, agent_id, decision.action)} :
              /\ Becomes(r.env)
              /\ last' = [op |-> "process_action", agent_id |-> agent_id,
                          action |-> decision.action, result |-> r.result,
                          view |-> view]
              /\ pre' = env
              /\ turn' = loop_after(turn.agent_ids, r.result)
              /\ turn_log' = Append(turn_log, [agent_id |-> agent_id,
                                               result |-> r.result,
                                               changed |-> r.env # asked])
              /\ turn_count' = IF loop_after(turn.agent_ids, r.result).running
                               THEN turn_count ELSE Counted(turn_count)
    /\ UNCHANGED <<scenario, items_added, reserved, twin>>

\* Calls made directly on the environment.
Next == ReserveEntityId \/ AddItem \/ AddAgent \/ ProcessAction

Spec == Init /\ [][Next]_vars

\* The environment driven through process_turn, as the front end drives it.
NextTurn == ReserveEntityId \/ AddItem \/ AddAgent \/ BeginTurn \/ TurnStep

SpecTurn == Init /\ [][NextTurn]_vars

(***************************************************************************)
(* Two runs of the program side by side, started from the same loaded map  *)
(* and given the same calls.  The RandomWalkers of the two runs have the   *)
(* same seeds, so as long as each has been asked as often in one run as in *)
(* the other it draws the same action in both; each run's HashMap yields   *)
(* its keys in an order of its own.  The runs are followed while they      *)
(* agree and no turn has returned Win.                                     *)
(***************************************************************************)
InStep ==
    /\ Scenarios[scenario].behaviors = {"RandomWalker"}
    /\ twin.env = env /\ twin.result = turn.result /\ turn.result # Some(Win)

TwinAddAgent ==
    \E position \in OfferedPositions, id \in Scenarios[scenario].ids :
        LET r == add_agent(env, position, RandomWalker(id), << >>)
            t == add_agent(twin.env, position, RandomWalker(id), << >>)
        IN  /\ InStep
            /\ Becomes(r.env)
            /\ twin' = [env |-> t.env, result |-> twin.result]
            /\ last' = [op |-> "add_agent", position |-> position, id |-> id,
                        initial_inventory |-> << >>, ok |-> r.ok]
            /\ pre' = env
            /\ UNCHANGED <<turn, scenario, items_added, reserved, turn_log,
                           turn_count>>

TwinTurn ==
    \E draws \in [DOMAIN agents -> (-1..1) \X (-1..1)] :
      \E agent_ids \in KeyOrders(DOMAIN agents),
         twin_agent_ids \in KeyOrders(DOMAIN twin.env.agents) :
        LET actions == [id \in DOMAIN agents |-> RandomWalker_get_action(draws[id])]
            r == process_turn(env, agent_ids, actions)
            t == process_turn(twin.env, twin_agent_ids, actions)
        IN  /\ InStep
            /\ Scenarios[scenario].turns
            /\ Becomes(r.env)
            /\ twin' = [env |-> t.env, result |-> Some(t.result)]
            /\ turn' = Idle(Some(r.result))
            /\ last' = [op |-> "process_turn", agent_ids |-> agent_ids,
                        twin_agent_ids |-> twin_agent_ids, result |-> r.result]
            /\ pre' = env
            /\ UNCHANGED <<scenario, items_added, reserved, turn_log, turn_count>>

NextTwin == TwinAddAgent \/ TwinTurn

SpecTwin == Init /\ [][NextTwin]_vars

(***************************************************************************)
(* a_star_path on its own.  The worlds it is asked on: every grid of at    *)
(* most MaxPathCells cells, loaded from a map that is either open, with    *)
(* the start on any cell, or has the start on its first cell and up to     *)
(* MaxObstacles of the other cells a wall ("WL"), a closed green door      *)
(* ("DG") or the place of another agent ("AG", added to the loaded         *)
(* environment with add_agent); the planning agent that asks is added on   *)
(* the start, holding nothing or a green key.                              *)
(***************************************************************************)
PathShapes ==
    {shape \in (1..MaxPathCells) \X (1..MaxPathCells) :
        shape[1] * shape[2] <= MaxPathCells}

\* The map of the given shape with "ST" on the cell of index start and the
\* walls and doors of obstacles, a function from cell indices to kinds.
PathMap(shape, start, obstacles) ==
    [row \in 1..shape[2] |->
        [col \in 1..shape[1] |->
            LET i == (row - 1) * shape[1] + (col - 1)
            IN  IF i = start THEN "ST"
                ELSE IF i \in DOMAIN obstacles /\ obstacles[i] # "AG"
                THEN obstacles[i]
                ELSE "BL"]]

\* add_agent for a RandomWalker on each cell of cells, with ids from id on.
RECURSIVE with_other_agents(_, _, _)
with_other_agents(e, cells, id) ==
    IF cells = {} THEN e
    ELSE LET i == CHOOSE c \in cells : \A d \in cells : c <= d
         IN  with_other_agents(
                 add_agent(e, index_to_coords(e.terrain, i),
                           RandomWalker(id), << >>).env,
                 cells \ {i}, id + 1)

PathWorld(shape, start, obstacles, inventory) ==
    LET loaded == load_environment_from_string(PathMap(shape, start, obstacles))
        others == {i \in DOMAIN obstacles : obstacles[i] = "AG"}
    IN  add_agent(with_other_agents(loaded.env, others, 1),
                  loaded.start, PlanningAgent(0), inventory).env

\* The sets of cells of the shape that hold the obstacles.
ObstacleCells(shape, start) ==
    IF start # 0 THEN {{}}
    ELSE {c \in SUBSET (1..(shape[1] * shape[2] - 1)) :
            Cardinality(c) <= MaxObstacles}

InitPath ==
    /\ scenario = "paths"
    /\ \E shape \in PathShapes :
        \E start \in 0..(shape[1] * shape[2] - 1) :
        \E cells \in ObstacleCells(shape, start) :
        \E obstacles \in [cells -> {"WL", "DG", "AG"}],
           inventory \in {<< >>, <<Key("Green")>>} :
          \E e \in {PathWorld(shape, start, obstacles, inventory)} :
              /\ terrain = e.terrain
              /\ items = e.items
              /\ agent_locations = e.agent_locations
              /\ agents = e.agents
              /\ agent_behaviors = e.agent_behaviors
              /\ next_entity_id = e.next_entity_id
              /\ pre = e
              /\ twin = [env |-> e, result |-> None]
              /\ last = [op |-> "add_agent", position |-> e.agents[0].position,
                         id |-> 0,
                         initial_inventory |-> e.agents[0].inventory,
                         ok |-> TRUE]
    /\ turn = Idle(None)
    /\ items_added = 0
    /\ reserved = << >>
    /\ turn_log = << >>
    /\ turn_count = 0

\* The planning agent asks for a path from where it stands to goal, as its
\* get_action does, with the view process_turn would hand it.  The call
\* leaves the environment as it was, so one call is followed in each world.
AStarPath ==
    \E goal \in Positions(terrain) :
      \E path \in a_star_path(agents[0].position, goal, EnvironmentView(0),
                               get_keys_held(EnvironmentView(0))) :
        /\ last.op = "add_agent"
        /\ last' = [op |-> "a_star_path", start |-> agents[0].position,
                    goal |-> goal,
                    keys_held |-> get_keys_held(EnvironmentView(0)),
                    path |-> path]
        /\ pre' = env
        /\ UNCHANGED <<terrain, items, agent_locations, agents, agent_behaviors,
                       next_entity_id, turn, scenario, items_added, reserved,
                       turn_log, twin, turn_count>>

NextPath == AStarPath

SpecPath == InitPath /\ [][NextPath]_vars

(***************************************************************************)
(* PlanningAgent::get_action on its own.  The worlds it is asked on: every *)
(* grid of at most MaxPlanCells cells with the start on any cell and up to *)
(* MaxPlanFeatures of the other cells a wall, a closed green door, a chip, *)
(* a goal, a green key or the place of another agent; the planning agent   *)
(* is added on the start with an empty plan queue, holding nothing or a    *)
(* green key.                                                              *)
(***************************************************************************)
PlanShapes ==
    {shape \in (1..MaxPlanCells) \X (1..MaxPlanCells) :
        shape[1] * shape[2] <= MaxPlanCells}

FeatureCells(shape, start) ==
    {c \in SUBSET ((0..(shape[1] * shape[2] - 1)) \ {start}) :
        Cardinality(c) <= MaxPlanFeatures}

InitPlan ==
    /\ scenario = "plans"
    /\ \E shape \in PlanShapes :
        \E start \in 0..(shape[1] * shape[2] - 1) :
        \E cells \in FeatureCells(shape, start) :
        \E features \in [cells -> {"WL", "DG", "CH", "PL", "KG", "AG"}],
           inventory \in {<< >>, <<Key("Green")>>} :
          \E e \in {PathWorld(shape, start, features, inventory)} :
              /\ terrain = e.terrain
              /\ items = e.items
              /\ agent_locations = e.agent_locations
              /\ agents = e.agents
              /\ agent_behaviors = e.agent_behaviors
              /\ next_entity_id = e.next_entity_id
              /\ pre = e
              /\ twin = [env |-> e, result |-> None]
              /\ last = [op |-> "add_agent", position |-> e.agents[0].position,
                         id |-> 0,
                         initial_inventory |-> e.agents[0].inventory,
                         ok |-> TRUE]
    /\ turn = Idle(None)
    /\ items_added = 0
    /\ reserved = << >>
    /\ turn_log = << >>
    /\ turn_count = 0

\* The planning agent is asked once for its action, with the view that
\* process_turn would hand it; the call changes its plan queue only.
GetAction ==
    \E decision \in get_action(agent_behaviors[0], EnvironmentView(0)) :
        /\ last.op = "add_agent"
        /\ agent_behaviors' = [agent_behaviors EXCEPT ![0] = decision.behavior]
        /\ last' = [op |-> "get_action", agent_id |-> 0,
                    view |-> EnvironmentView(0), action |-> decision.action]
        /\ pre' = env
        /\ UNCHANGED <<terrain, items, agent_locations, agents, next_entity_id,
                       turn, scenario, items_added, reserved, turn_log, twin,
                       turn_count>>

NextPlan == GetAction

SpecPlan == InitPlan /\ [][NextPlan]_vars

(***************************************************************************)
(* The key-door-goal chain, driven as the front end drives it: the         *)
(* planning agent is added on the start of the loaded map, holding         *)
(* nothing, and process_turn is called again and again.  The maps: every   *)
(* grid of at most MaxLiveCells cells with the start, one green key, one   *)
(* closed green door and one goal on different cells and up to             *)
(* MaxLiveWalls walls among the others, such that the goal is out of reach *)
(* while the door is shut, within reach once it may be passed, and the key *)
(* is within reach as things are.  The calls are those of the world        *)
(* "keydoor".                                                              *)
(***************************************************************************)
LiveShapes ==
    {shape \in (1..MaxLiveCells) \X (1..MaxLiveCells) :
        shape[1] * shape[2] <= MaxLiveCells}

\* The cells that 4-connected routes reach from the cells of reached in
\* environment e, through cells that are no wall and, unless through_doors,
\* no closed door.
RECURSIVE Reach(_, _, _)
Reach(e, reached, through_doors) ==
    LET further ==
            {pos \in Positions(e.terrain) :
                /\ Index(e.terrain, pos) # Wall
                /\ through_doors \/ Index(e.terrain, pos) = Floor
                /\ \E from \in reached : manhattan_distance(from, pos) = 1}
    IN  IF further \subseteq reached THEN reached
        ELSE Reach(e, reached \cup further, through_doors)

\* The one green door of e lies on every route from the agent to the goal,
\* and no door on some route from the agent to the key.
KeyDoorGoalChain(e, key, goal) ==
    LET start == e.agents[0].position
    IN  /\ goal \notin Reach(e, {start}, FALSE)
        /\ goal \in Reach(e, {start}, TRUE)
        /\ key \in Reach(e, {start}, FALSE)

InitLive ==
    /\ scenario = "keydoor"
    /\ \E shape \in LiveShapes :
        \E places \in [{"ST", "KG", "DG", "PL"} -> 0..(shape[1] * shape[2] - 1)] :
        \E walls \in SUBSET ((0..(shape[1] * shape[2] - 1))
                                 \ {places[t] : t \in DOMAIN places}) :
          /\ Cardinality({places[t] : t \in DOMAIN places}) = 4
          /\ Cardinality(walls) <= MaxLiveWalls
          /\ \E e \in {PathWorld(shape, places["ST"],
                                  [c \in walls \cup {places["KG"], places["DG"],
                                                      places["PL"]} |->
                                      IF c = places["KG"] THEN "KG"
                                      ELSE IF c = places["DG"] THEN "DG"
                                      ELSE IF c = places["PL"] THEN "PL"
                                      ELSE "WL"],
                                  << >>)} :
                /\ KeyDoorGoalChain(e, index_to_coords(e.terrain, places["KG"]),
                                    index_to_coords(e.terrain, places["PL"]))
                /\ terrain = e.terrain
                /\ items = e.items
                /\ agent_locations = e.agent_locations
                /\ agents = e.agents
                /\ agent_behaviors = e.agent_behaviors
                /\ next_entity_id = e.next_entity_id
                /\ pre = e
                /\ twin = [env |-> e, result |-> None]
                /\ last = [op |-> "add_agent", position |-> e.agents[0].position,
                           id |-> 0, initial_inventory |-> << >>, ok |-> TRUE]
    /\ turn = Idle(None)
    /\ items_added = 0
    /\ reserved = << >>
    /\ turn_log = << >>
    /\ turn_count = 0

NextLive == BeginTurn \/ TurnStep

\* process_turn is called for ever, and each call runs to its end.
SpecLive ==
    InitLive /\ [][NextLive]_vars /\ WF_vars(BeginTurn) /\ WF_vars(TurnStep)

(***************************************************************************)
(* The operations of Grid on their own.  A grid of CellType of up to       *)
(* MaxGridSide columns and rows (none included) is made with Grid::new and *)
(* filled through set; then is_valid, get, get_mut, set and the two        *)
(* indexed accessors are called on it with coordinates inside the grid    *)
(* and up to MaxGridSide + 1 outside it.  The grid lives in terrain; a     *)
(* panic leaves it as it was.                                              *)
(***************************************************************************)
GridSides == 0..MaxGridSide
GridCoordinates == 0..(MaxGridSide + 1)
GridValues == {Floor, Wall}

InitGrid ==
    /\ scenario = "grid"
    /\ \E width \in GridSides, height \in GridSides :
          /\ terrain = GridNew(width, height, Floor)
          /\ items = GridNew(width, height, None)
          /\ agent_locations = GridNew(width, height, None)
    /\ agents = << >>
    /\ agent_behaviors = << >>
    /\ next_entity_id = 0
    /\ last = [op |-> "Grid::new"]
    /\ pre = env
    /\ turn = Idle(None)
    /\ items_added = 0
    /\ reserved = << >>
    /\ turn_log = << >>
    /\ twin = [env |-> env, result |-> None]
    /\ turn_count = 0

\* The grid has just been made or written: the calls that leave it as it
\* was are followed once for each grid.
GridWritten == last.op \in {"Grid::new", "set"}

\* A call on the grid that leaves it as it was and ends with result.
GridCall(op, px, py, result) ==
    /\ GridWritten
    /\ last' = [op |-> op, x |-> px, y |-> py, result |-> result]
    /\ pre' = env
    /\ UNCHANGED <<terrain, items, agent_locations, agents, agent_behaviors,
                   next_entity_id, turn, scenario, items_added, reserved,
                   turn_log, twin, turn_count>>

GridIsValid ==
    \E px \in GridCoordinates, py \in GridCoordinates :
        GridCall("is_valid", px, py, is_valid(terrain, px, py))

GridGet ==
    \E px \in GridCoordinates, py \in GridCoordinates :
        GridCall("get", px, py, get(terrain, px, py))

GridGetMut ==
    \E px \in GridCoordinates, py \in GridCoordinates :
        GridCall("get_mut", px, py, get_mut(terrain, px, py))

GridIndex ==
    \E px \in GridCoordinates, py \in GridCoordinates :
        GridCall("index", px, py, index_coords(terrain, <<px, py>>))

GridIndexPosition ==
    \E px \in GridCoordinates, py \in GridCoordinates :
        GridCall("index_position", px, py,
                 index_position(terrain, Position(px, py)))

GridSet ==
    \E px \in GridCoordinates, py \in GridCoordinates, value \in GridValues :
        LET r == set(terrain, px, py, value)
        IN  /\ GridWritten
            /\ terrain' = r.grid
            /\ last' = [op |-> "set", x |-> px, y |-> py, value |-> value,
                        result |-> r.ok]
            /\ pre' = env
            /\ UNCHANGED <<items, agent_locations, agents, agent_behaviors,
                           next_entity_id, turn, scenario, items_added,
                           reserved, turn_log, twin, turn_count>>

NextGrid ==
    GridIsValid \/ GridGet \/ GridGetMut \/ GridIndex \/ GridIndexPosition
        \/ GridSet

SpecGrid == InitGrid /\ [][NextGrid]_vars

(***************************************************************************)
(* load_environment_from_string on its own.  The map strings handed to it: *)
(* up to MaxMapLines lines of up to MaxMapTokens tokens each (lines        *)
(* without token included), the tokens being "ST", one other map code,     *)
(* and "XX", which is no map code.  Until the loader has returned there    *)
(* is no environment; the variables hold an empty one.                     *)
(***************************************************************************)
MapLines(filler) == SeqsUpTo({"ST", filler, "XX"}, MaxMapTokens)

\* a floor, a wall, a door, and the items on a floor
MapFillers == {"BL", "WL", "DG", "KG", "CH", "PL"}

InitLoad ==
    /\ scenario = "load"
    /\ terrain = EnvironmentNew(0, 0).terrain
    /\ items = EnvironmentNew(0, 0).items
    /\ agent_locations = EnvironmentNew(0, 0).agent_locations
    /\ agents = << >>
    /\ agent_behaviors = << >>
    /\ next_entity_id = 0
    /\ \E filler \in MapFillers :
          \E map_string \in SeqsUpTo(MapLines(filler), MaxMapLines) :
              last = [op |-> "read_to_string", map_string |-> map_string]
    /\ pre = env
    /\ turn = Idle(None)
    /\ items_added = 0
    /\ reserved = << >>
    /\ turn_log = << >>
    /\ twin = [env |-> env, result |-> None]
    /\ turn_count = 0

\* The call of the loader on the string read: Ok((environment, start)), or
\* Err(message) and no environment.
Load ==
    /\ last.op = "read_to_string"
    /\ \E r \in {load_environment_from_string(last.map_string)} :
          /\ Becomes(IF r.ok THEN r.env ELSE env)
          /\ last' = IF r.ok
                     THEN [op |-> "load_environment_from_string",
                           map_string |-> last.map_string,
                           ok |-> TRUE, start |-> r.start]
                     ELSE [op |-> "load_environment_from_string",
                           map_string |-> last.map_string,
                           ok |-> FALSE, error |-> r.error]
    /\ pre' = env
    /\ UNCHANGED <<turn, scenario, items_added, reserved, turn_log, twin,
                   turn_count>>

NextLoad == Load

SpecLoad == InitLoad /\ [][NextLoad]_vars

(***************************************************************************)
(* environment.rs: Environment::get_key_location and                       *)
(* Environment::get_corresponding_key_location, and the latter on its own: *)
(* it is asked, for every position of the map and one outside, on every    *)
(* loaded map of at most MaxKeyMapCells cells made of the start, floors,   *)
(* red doors, and red and green keys.                                      *)
(***************************************************************************)
\* The last key of the type is taken, not the first.
get_key_location_last(e, type_to_find) ==
    LET found == SelectSeq(enumerate(e.items),
                           LAMBDA pos : Index(e.items, pos) = Some(Key(type_to_find)))
    IN  IF found = << >> THEN None ELSE Some(found[Len(found)])

\* items.enumerate().find_map(..): Option<Position>
get_key_location(e, type_to_find) ==
    LET found == SelectSeq(enumerate(e.items),
                           LAMBDA pos : Index(e.items, pos) = Some(Key(type_to_find)))
    IN  IF found = << >> THEN None ELSE Some(Head(found))

get_corresponding_key_location(e, door_pos) ==
    LET cell == get(e.terrain, door_pos.x, door_pos.y)
    IN  IF cell.some /\ cell.value.tag = "Door" /\ cell.value.door_type.some
        THEN get_key_location(e, cell.value.door_type.value)
        ELSE None

KeyMapShapes ==
    {shape \in (1..MaxKeyMapCells) \X (1..MaxKeyMapCells) :
        shape[1] * shape[2] <= MaxKeyMapCells}

\* The maps of a shape with one "ST".
KeyMaps(shape) ==
    {m \in [1..shape[2] -> [1..shape[1] -> {"ST", "BL", "DR", "KR", "KG"}]] :
        Cardinality({rc \in (1..shape[2]) \X (1..shape[1]) :
                        m[rc[1]][rc[2]] = "ST"}) = 1}

InitKeys ==
    /\ scenario = "keys"
    /\ \E shape \in KeyMapShapes :
        \E map \in KeyMaps(shape) :
        \E e \in {load_environment_from_string(map).env} :
            /\ terrain = e.terrain
            /\ items = e.items
            /\ agent_locations = e.agent_locations
            /\ agents = e.agents
            /\ agent_behaviors = e.agent_behaviors
            /\ next_entity_id = e.next_entity_id
            /\ pre = e
            /\ twin = [env |-> e, result |-> None]
    /\ last = [op |-> "load_environment_from_string"]
    /\ turn = Idle(None)
    /\ items_added = 0
    /\ reserved = << >>
    /\ turn_log = << >>
    /\ turn_count = 0

\* The query takes &self: the environment stays as it is, and one query is
\* followed in each.
GetCorrespondingKeyLocation ==
    \E door_pos \in Positions(terrain) \cup {Position(terrain.width, 0)} :
        /\ last.op = "load_environment_from_string"
        /\ last' = [op |-> "get_corresponding_key_location",
                    door_pos |-> door_pos,
                    result |-> get_corresponding_key_location(env, door_pos)]
        /\ pre' = env
        /\ UNCHANGED <<terrain, items, agent_locations, agents, agent_behaviors,
                       next_entity_id, turn, scenario, items_added, reserved,
                       turn_log, twin, turn_count>>

NextKeys == GetCorrespondingKeyLocation

SpecKeys == InitKeys /\ [][NextKeys]_vars

(***************************************************************************)
(* Vocabulary of the properties: the last call, seen from the environment  *)
(* it was made on (pre) and the environment it left (the current state).   *)
(***************************************************************************)
IsAction == last.op = "process_action"
IsMove == IsAction /\ last.action.tag = "Move"
Mover == last.agent_id
Registered == Mover \in DOMAIN pre.agents
Origin == pre.agents[Mover].position
TargetX == wrapping_add_signed(Origin.x, last.action.dx)
TargetY == wrapping_add_signed(Origin.y, last.action.dy)
Target == Position(TargetX, TargetY)
\* A Move by a registered agent whose target cell is inside the grid.
MoveInBounds == IsMove /\ Registered /\ is_valid(pre.terrain, TargetX, TargetY)

InventoryBefore == pre.agents[Mover].inventory
InventoryAfter == agents[Mover].inventory
TargetItem == Index(pre.items, Target)
TargetCell == Index(pre.terrain, Target)
TargetOccupied == Index(pre.agent_locations, Target).some
ClosedDoorRequiring(k) == TargetCell = Door(FALSE, Some(k))

Holds(inventory, k) == \E j \in 1..Len(inventory) : inventory[j] = Key(k)
Count(inventory, item) == Cardinality({j \in 1..Len(inventory) : inventory[j] = item})

\* The cells of grid g that hold agent id.
CellsHolding(g, id) == {p \in Positions(g) : Index(g, p) = Some(id)}

\* What the target cell's item adds to the mover's inventory: a Chip, or
\* a Key of a colour the mover does not hold, is appended; nothing else is.
Collects ==
    /\ TargetItem.some
    /\ \/ TargetItem.value = Chip
       \/ /\ TargetItem.value.tag = "Key"
          /\ ~Holds(InventoryBefore, TargetItem.value.key_type)
InventoryWithPickup ==
    IF Collects THEN Append(InventoryBefore, TargetItem.value) ELSE InventoryBefore

\* after is before with exactly one Key(k) taken out, the rest in order.
OneKeyRemoved(before, after, k) ==
    \E j \in 1..Len(before) :
        /\ before[j] = Key(k)
        /\ after = [i \in 1..(Len(before) - 1) |-> IF i < j THEN before[i] ELSE before[i + 1]]

\* This Move opened a closed door that requires a key.
OpenedLockedDoor ==
    /\ MoveInBounds
    /\ last.result = Success
    /\ TargetCell.tag = "Door" /\ ~TargetCell.open /\ TargetCell.door_type.some

(***************************************************************************)
(* C1. Occupancy invariant: every registered agent's position cell holds   *)
(* its id, no other cell holds that id, and no two agents share a          *)
(* position.  The Goal arm of process_action moves the agent without       *)
(* looking at the occupancy of the goal cell, so this is violated.         *)
(***************************************************************************)
OccupancyInvariant ==
    \A a \in DOMAIN agents :
        /\ Index(agent_locations, agents[a].position) = Some(agents[a].id)
        /\ CellsHolding(agent_locations, a) = {agents[a].position}
        /\ \A b \in DOMAIN agents : b # a => agents[b].position # agents[a].position

(***************************************************************************)
(* C2. After a Move that returns Success exactly one cell of               *)
(* agent_locations holds the mover's id, it is the mover's position (the   *)
(* target cell), and the origin cell is cleared.                           *)
(***************************************************************************)
MoveSuccessSwapsOccupancy ==
    (IsMove /\ last.result = Success) =>
        /\ CellsHolding(agent_locations, Mover) = {agents[Mover].position}
        /\ agents[Mover].position = Target
        /\ Index(agent_locations, Origin) = None

MoveSuccessWitness ==
    /\ IsMove /\ last.result = Success
    /\ Cardinality(DOMAIN agents) = 2
    /\ Origin # agents[Mover].position

(***************************************************************************)
(* C3, as stated: a Move into a closed door requiring colour k succeeds    *)
(* only if the cell is unoccupied and the inventory held when the action   *)
(* was submitted contains Key(k); without it the call fails, the door      *)
(* stays closed and position and occupancy are unchanged.                  *)
(***************************************************************************)
LockedDoorNeedsKeyAtSubmission ==
    \A k \in DoorKeyType :
        (MoveInBounds /\ ClosedDoorRequiring(k)) =>
            /\ last.result = Success =>
                   ~TargetOccupied /\ Holds(InventoryBefore, k)
            /\ ~Holds(InventoryBefore, k) =>
                   /\ last.result.tag = "Failure"
                   /\ Index(terrain, Target) = Door(FALSE, Some(k))
                   /\ agents[Mover].position = Origin
                   /\ agent_locations = pre.agent_locations

(***************************************************************************)
(* C3, amended: the key is looked for after the item on the door cell has  *)
(* been picked up.  The Move returns Success only if the cell is           *)
(* unoccupied and the mover holds Key(k) or Key(k) lies on the door cell   *)
(* itself.  Otherwise the door stays closed; the call returns Failure with *)
(* position and occupancy unchanged, unless the door cell holds a Goal, in *)
(* which case it returns Win.                                              *)
(***************************************************************************)
LockedDoorNeedsKeyAfterPickup ==
    \A k \in DoorKeyType :
        (MoveInBounds /\ ClosedDoorRequiring(k)) =>
            /\ last.result = Success =>
                   /\ ~TargetOccupied
                   /\ Holds(InventoryBefore, k) \/ TargetItem = Some(Key(k))
            /\ ~(Holds(InventoryBefore, k) \/ TargetItem = Some(Key(k))) =>
                   /\ Index(terrain, Target) = Door(FALSE, Some(k))
                   /\ IF TargetItem = Some(Goal)
                      THEN last.result = Win
                      ELSE /\ last.result.tag = "Failure"
                           /\ agents[Mover].position = Origin
                           /\ agent_locations = pre.agent_locations

\* A door opened with the key that lay on the door cell.
LockedDoorWitness ==
    \E k \in DoorKeyType :
        /\ MoveInBounds /\ ClosedDoorRequiring(k)
        /\ ~Holds(InventoryBefore, k) /\ TargetItem = Some(Key(k))
        /\ last.result = Success

(***************************************************************************)
(* C4. Door state is monotonic.  Across every call a door keeps its        *)
(* door_type and an open door stays open, and a Wall or Floor cell keeps   *)
(* its terrain; compared with the loaded map, no cell has changed except   *)
(* that doors may have opened.                                             *)
(***************************************************************************)
CellMonotonic(before, after) ==
    IF before.tag = "Door"
    THEN /\ after.tag = "Door"
         /\ after.door_type = before.door_type
         /\ before.open => after.open
    ELSE after = before

DoorStateMonotonic ==
    /\ terrain.width = pre.terrain.width /\ terrain.height = pre.terrain.height
    /\ \A i \in DOMAIN terrain.cells :
          /\ CellMonotonic(pre.terrain.cells[i], terrain.cells[i])
          /\ CellMonotonic(InitialEnvironment(scenario).terrain.cells[i], terrain.cells[i])

\* A keyed door and a keyless door have both been opened.
DoorOpenedWitness ==
    /\ \E i \in DOMAIN terrain.cells :
          terrain.cells[i].tag = "Door" /\ terrain.cells[i].open
          /\ terrain.cells[i].door_type.some
    /\ \E i \in DOMAIN terrain.cells : terrain.cells[i] = Door(TRUE, None)

(***************************************************************************)
(* C5. A successful Move that opens a closed door of colour k takes        *)
(* exactly one Key(k) out of the mover's inventory (the inventory as the   *)
(* pickup on the door cell left it), the other entries keeping their       *)
(* order; a Move into an open door takes nothing out.                      *)
(***************************************************************************)
DoorConsumesExactlyOneKey ==
    /\ OpenedLockedDoor =>
           OneKeyRemoved(InventoryWithPickup, InventoryAfter, TargetCell.door_type.value)
    /\ (MoveInBounds /\ TargetCell.tag = "Door" /\ TargetCell.open) =>
           InventoryAfter = InventoryWithPickup

\* The door was opened by an agent that held two keys of its colour.
TwoKeysWitness ==
    /\ OpenedLockedDoor
    /\ Count(InventoryBefore, Key(TargetCell.door_type.value)) = 2
    /\ Count(InventoryAfter, Key(TargetCell.door_type.value)) = 1

(***************************************************************************)
(* C6, as stated: whenever process_action returns Failure the acting       *)
(* agent's position and inventory are what they were before the action.    *)
(***************************************************************************)
FailureKeepsPriorState ==
    (IsAction /\ Registered /\ last.result.tag = "Failure") =>
        /\ agents[Mover].position = Origin
        /\ InventoryAfter = InventoryBefore

(***************************************************************************)
(* C6, amended: whenever process_action returns Failure the acting agent's *)
(* position is what it was, and its inventory is what it was except that   *)
(* a Chip, or a Key of a colour it did not hold, lying on the in-bounds    *)
(* target cell has been appended to it.                                    *)
(***************************************************************************)
FailureKeepsPositionAndPickup ==
    (IsAction /\ Registered /\ last.result.tag = "Failure") =>
        /\ agents[Mover].position = Origin
        /\ InventoryAfter = IF MoveInBounds THEN InventoryWithPickup ELSE InventoryBefore

\* A failed Move into a locked door that nevertheless collected an item.
FailureAtLockedDoorWitness ==
    /\ MoveInBounds /\ last.result = Failure("Agent lacks the required key type.")
    /\ Collects
    /\ InventoryAfter # InventoryBefore

(***************************************************************************)
(* C7. Pickup is not rolled back: when the in-bounds target cell holds a   *)
(* Chip, or a Key of a colour the mover does not hold, and the Move fails, *)
(* the item is gone from the item grid and is the last entry of the        *)
(* mover's inventory.                                                      *)
(***************************************************************************)
PickupNotRolledBack ==
    (MoveInBounds /\ Collects /\ last.result.tag = "Failure") =>
        /\ Index(items, Target) = None
        /\ InventoryAfter = Append(InventoryBefore, TargetItem.value)

\* The Move failed because another agent stands on the item's cell.
PickupThenOccupiedWitness ==
    /\ MoveInBounds /\ Collects /\ last.result = Occupied
    /\ Target # Origin

(***************************************************************************)
(* C8, as stated: a Move whose in-bounds target holds a Goal returns Win,  *)
(* the mover's position is the goal cell, the origin cell's occupancy is   *)
(* cleared and the goal cell's occupancy is the mover's id.                *)
(***************************************************************************)
GoalMoveWinsAndClearsOrigin ==
    (MoveInBounds /\ TargetItem = Some(Goal)) =>
        /\ last.result = Win
        /\ agents[Mover].position = Target
        /\ Index(agent_locations, Origin) = None
        /\ Index(agent_locations, Target) = Some(Mover)

(***************************************************************************)
(* C8, amended: as stated, except that the origin cell's occupancy is      *)
(* cleared only when the origin is not the goal cell itself (a Move by     *)
(* (0, 0) of an agent standing on the Goal leaves the agent marked there). *)
(***************************************************************************)
GoalMoveWins ==
    (MoveInBounds /\ TargetItem = Some(Goal)) =>
        /\ last.result = Win
        /\ agents[Mover].position = Target
        /\ Origin # Target => Index(agent_locations, Origin) = None
        /\ Index(agent_locations, Target) = Some(Mover)

\* A Win by stepping onto a goal cell on which another agent stands.
GoalMoveWitness ==
    /\ MoveInBounds /\ TargetItem = Some(Goal) /\ last.result = Win
    /\ Origin # Target
    /\ TargetOccupied

(***************************************************************************)
(* C9. A Move onto a cell holding Key(k) collects the key (the item cell   *)
(* is cleared and the key appended to the inventory) if and only if the    *)
(* mover held no Key(k) before; otherwise the key stays on the grid and    *)
(* the pickup leaves the inventory as it was.  The only other change a     *)
(* Move makes to the inventory is the key a locked door consumes.          *)
(***************************************************************************)
KeyPickupIffNotHeld ==
    \A k \in DoorKeyType :
        (MoveInBounds /\ TargetItem = Some(Key(k))) =>
            LET expected == IF Holds(InventoryBefore, k) THEN InventoryBefore
                            ELSE Append(InventoryBefore, Key(k))
            IN  /\ Index(items, Target) = None <=> ~Holds(InventoryBefore, k)
                /\ Holds(InventoryBefore, k) => Index(items, Target) = Some(Key(k))
                /\ IF OpenedLockedDoor
                   THEN OneKeyRemoved(expected, InventoryAfter, TargetCell.door_type.value)
                   ELSE InventoryAfter = expected

\* A Move onto Key(k) by an agent that already holds Key(k).
KeyAlreadyHeldWitness ==
    \E k \in DoorKeyType :
        /\ MoveInBounds /\ TargetItem = Some(Key(k))
        /\ Holds(InventoryBefore, k)
        /\ last.result = Success

(***************************************************************************)
(* C10, as stated: process_action(agent_id, Wait) always returns Success   *)
(* and changes nothing.                                                    *)
(***************************************************************************)
WaitAlwaysSucceeds ==
    (IsAction /\ last.action = Wait) =>
        /\ last.result = Success
        /\ env = pre

(***************************************************************************)
(* C10, amended: process_action(agent_id, Wait) changes nothing; it        *)
(* returns Success when agent_id is registered and Failure (agent not      *)
(* found) when it is not.                                                  *)
(***************************************************************************)
WaitChangesNothing ==
    (IsAction /\ last.action = Wait) =>
        /\ env = pre
        /\ last.result = IF Registered THEN Success ELSE Failure("Agent not found.")

\* A Wait by a registered agent that stands on an item next to another agent.
WaitWitness ==
    /\ IsAction /\ last.action = Wait /\ Registered
    /\ Index(items, agents[Mover].position).some
    /\ Cardinality(DOMAIN agents) = 2

(***************************************************************************)
(* C11. A Move whose target coordinate lies before the origin (x = 0 with  *)
(* dx = -1, y = 0 with dy = -1) or at or after width or height returns     *)
(* Failure as out of bounds and changes nothing; whatever a Move returns,  *)
(* the mover ends on its origin or on the cell (dx, dy) away, never on the *)
(* far edge through wrap-around.                                           *)
(***************************************************************************)
\* The target in unbounded integer arithmetic.
PlainTargetX == Origin.x + last.action.dx
PlainTargetY == Origin.y + last.action.dy
TargetOutside ==
    \/ PlainTargetX < 0 \/ PlainTargetX >= pre.terrain.width
    \/ PlainTargetY < 0 \/ PlainTargetY >= pre.terrain.height

MoveOutOfBoundsFails ==
    (IsMove /\ Registered) =>
        /\ TargetOutside =>
               /\ last.result = Failure("Target position is out of bounds.")
               /\ env = pre
        /\ agents[Mover].position \in {Origin, Position(PlainTargetX, PlainTargetY)}

\* A Move to the left from column 0 and upwards from row 0.
MoveBeforeOriginWitness ==
    /\ IsMove /\ Registered
    /\ Origin = Position(0, 0)
    /\ last.action = Move(-1, -1)
    /\ last.result.tag = "Failure"

(***************************************************************************)
(* C17. add_item(pos, item) succeeds exactly when pos is in bounds, holds  *)
(* no item, is not occupied by an agent and is not a Wall.  On success     *)
(* items[pos] is Some(item) and nothing else has changed; on failure the   *)
(* environment is unchanged.                                               *)
(***************************************************************************)
IsAddItem == last.op = "add_item"

AddItemAllowed ==
    /\ last.position.x < pre.terrain.width /\ last.position.y < pre.terrain.height
    /\ Index(pre.items, last.position) = None
    /\ Index(pre.agent_locations, last.position) = None
    /\ Index(pre.terrain, last.position) # Wall

AddItemContract ==
    IsAddItem =>
        /\ last.ok <=> AddItemAllowed
        /\ last.ok =>
               /\ Index(items, last.position) = Some(last.item)
               /\ \A q \in Positions(items) \ {last.position} :
                      Index(items, q) = Index(pre.items, q)
               /\ items.width = pre.items.width /\ items.height = pre.items.height
               /\ terrain = pre.terrain
               /\ agent_locations = pre.agent_locations
               /\ agents = pre.agents
               /\ agent_behaviors = pre.agent_behaviors
               /\ next_entity_id = pre.next_entity_id
        /\ ~last.ok => env = pre

\* A call refused because an agent stands on the cell (an opened door).
AddItemOccupiedWitness ==
    /\ IsAddItem /\ ~last.ok
    /\ last.position \in Positions(pre.terrain)
    /\ Index(pre.agent_locations, last.position) # None
    /\ Index(pre.items, last.position) = None

(***************************************************************************)
(* C18. add_agent fails, leaving the environment unchanged, when pos is    *)
(* out of bounds, occupied by an agent, a Wall or a closed Door, or when   *)
(* the behaviour's id is already registered; otherwise it succeeds, also   *)
(* when pos holds an item.  On success agent_locations[pos] is the new id, *)
(* the agent's state is (id, pos, given inventory), its behaviour is       *)
(* recorded, and the terrain, the items and the other agents are as        *)
(* before.                                                                 *)
(***************************************************************************)
IsAddAgent == last.op = "add_agent"

AddAgentRefused ==
    \/ last.position.x >= pre.terrain.width
    \/ last.position.y >= pre.terrain.height
    \/ Index(pre.agent_locations, last.position) # None
    \/ Index(pre.terrain, last.position) = Wall
    \/ /\ Index(pre.terrain, last.position).tag = "Door"
       /\ ~Index(pre.terrain, last.position).open
    \/ last.id \in DOMAIN pre.agents

AddAgentContract ==
    IsAddAgent =>
        /\ last.ok <=> ~AddAgentRefused
        /\ ~last.ok =>
               /\ agent_locations = pre.agent_locations
               /\ agents = pre.agents
               /\ agent_behaviors = pre.agent_behaviors
               /\ next_entity_id = pre.next_entity_id
               /\ env = pre
        /\ last.ok =>
               /\ Index(agent_locations, last.position) = Some(last.id)
               /\ \A q \in Positions(agent_locations) \ {last.position} :
                      Index(agent_locations, q) = Index(pre.agent_locations, q)
               /\ DOMAIN agents = DOMAIN pre.agents \cup {last.id}
               /\ DOMAIN agent_behaviors = DOMAIN agents
               /\ agents[last.id] =
                      AgentState(last.id, last.position, last.initial_inventory)
               /\ agent_behaviors[last.id].id = last.id
               /\ \A a \in DOMAIN pre.agents : agents[a] = pre.agents[a]
               /\ terrain = pre.terrain
               /\ items = pre.items

\* An agent placed, with a non-empty inventory, on a cell that holds an item.
AddAgentOnItemWitness ==
    /\ IsAddAgent /\ last.ok
    /\ Index(items, last.position) # None
    /\ last.initial_inventory # << >>

(***************************************************************************)
(* C19. next_entity_id never decreases and is strictly greater than every  *)
(* registered agent id, so that reserve_entity_id never returns the id of  *)
(* a registered agent and never returns the same id twice.  The additions  *)
(* on the counter wrap at the top of the word: registering the largest id  *)
(* leaves the counter where it was, and reserving the largest id takes the *)
(* counter back to 0, so this is violated.                                 *)
(***************************************************************************)
EntityIdCounterMonotonic ==
    /\ next_entity_id >= pre.next_entity_id
    /\ \A a \in DOMAIN agents : next_entity_id > a
    /\ last.op = "reserve_entity_id" => last.id \notin DOMAIN pre.agents
    /\ \A i, j \in 1..Len(reserved) : reserved[i] = reserved[j] => i = j

(***************************************************************************)
(* Vocabulary of the properties about process_turn.                        *)
(***************************************************************************)
\* The last call is an action applied by the loop of process_turn.
IsTurnAction == IsAction /\ turn_log # << >>
TurnReturned == ~turn.running /\ turn.result # None
Asked == {turn_log[i].agent_id : i \in 1..Len(turn_log)}
Waiting == {turn.agent_ids[i] : i \in 1..Len(turn.agent_ids)}

(***************************************************************************)
(* C12. As soon as one agent's action yields Win, process_turn returns Win *)
(* and no agent later in the turn's order is asked or acts: a Win is the   *)
(* last entry of the turn's log, the turn has returned Win and the         *)
(* environment is the one the winning action left (the behaviours apart,   *)
(* which being asked may change).                                          *)
(***************************************************************************)
WinAbortsTurn ==
    /\ \A i \in 1..Len(turn_log) :
          turn_log[i].result = Win =>
              /\ i = Len(turn_log)
              /\ turn = Idle(Some(Win))
              /\ last.agent_id = turn_log[i].agent_id
              /\ [env EXCEPT !.agent_behaviors = pre.agent_behaviors]
                     = process_action(pre, last.agent_id, last.action).env
    /\ turn.result = Some(Win) =>
          turn_log # << >> /\ turn_log[Len(turn_log)].result = Win

\* The first of two agents won; the second was never asked.
WinAbortsTurnWitness ==
    /\ turn.result = Some(Win)
    /\ Len(turn_log) = 1
    /\ Cardinality(DOMAIN agents) = 2

(***************************************************************************)
(* C13. process_turn never returns Failure.  When it returns Success no    *)
(* action of the turn yielded Win and every registered agent was asked     *)
(* exactly once, also the agents after one whose action failed; while it   *)
(* runs, the agents still to be asked are the registered ones not yet      *)
(* asked.                                                                  *)
(***************************************************************************)
TurnSwallowsFailure ==
    /\ turn.result \in {None, Some(Success), Some(Win)}
    /\ Cardinality(Asked) = Len(turn_log)
    /\ turn.result = Some(Success) =>
          /\ Asked = DOMAIN agents
          /\ \A i \in 1..Len(turn_log) : turn_log[i].result # Win
    /\ turn.running =>
          /\ Waiting # {}
          /\ Waiting \cup Asked = DOMAIN agents
          /\ Waiting \cap Asked = {}
          /\ Cardinality(Waiting) = Len(turn.agent_ids)

\* The first agent's action failed, the second still acted, Success returned.
FailureSwallowedWitness ==
    /\ turn.result = Some(Success)
    /\ Len(turn_log) = 2
    /\ turn_log[1].result.tag = "Failure"
    /\ turn_log[2].result = Success

(***************************************************************************)
(* C14. process_turn resolves the agents in ascending id order: of two     *)
(* agents that act in a turn, the one with the smaller id acts first.      *)
(* The order is the one in which the HashMap yields its keys, which is     *)
(* not specified, so this is violated.                                     *)
(***************************************************************************)
AscendingIdOrder ==
    \A i, j \in 1..Len(turn_log) :
        i < j => turn_log[i].agent_id < turn_log[j].agent_id

(***************************************************************************)
(* C16. The view handed to an agent in process_turn is built after the     *)
(* earlier agents' actions of the turn were applied: its grids and its     *)
(* snapshot of the agent's own state are those of the environment on       *)
(* which the agent's action is then resolved (pre, the environment the     *)
(* earlier actions left).                                                  *)
(***************************************************************************)
ViewShowsEarlierActions ==
    IsTurnAction =>
        /\ last.view.terrain_grid = pre.terrain
        /\ last.view.item_grid = pre.items
        /\ last.view.agent_location_grid = pre.agent_locations
        /\ last.view.agent_state = pre.agents[Mover]
        /\ last.view.location = pre.agents[Mover].position

\* The second agent of a turn saw the first one on the cell it had just
\* moved to, and the cell of the key it had just collected empty.
ViewWitness ==
    /\ IsTurnAction /\ Len(turn_log) = 2
    /\ turn_log[1].result = Success
    /\ turn_log[1].changed
    /\ LET first == turn_log[1].agent_id
       IN  /\ Index(last.view.agent_location_grid, pre.agents[first].position)
                  = Some(first)
           /\ pre.agents[first].inventory # << >>
           /\ Index(last.view.item_grid, pre.agents[first].position) = None

(***************************************************************************)
(* C15. The simulation is deterministic: two runs started from the same    *)
(* initial environment with the same agents (same ids, same seeds) return  *)
(* the same process_turn results and have the same environment after       *)
(* every turn.  With two agents the order in which a run's HashMap yields  *)
(* them decides who gets a contested cell, so this is violated.            *)
(***************************************************************************)
TwoRunsAgree ==
    last.op = "process_turn" =>
        /\ twin.env = env
        /\ twin.result = Some(last.result)

(***************************************************************************)
(* C20. End to end: on the 3x3 all-floor map with the start at (0, 0) and  *)
(* a Goal at (2, 2), with a single PlanningAgent put on the start, the     *)
(* first three process_turn calls return Success and the fourth returns    *)
(* Win; after the k-th of them the agent is 4 - k steps from the goal.     *)
(***************************************************************************)
PlannerReachesGoalInFourTurns ==
    (scenario = "plan" /\ DOMAIN agents # {} /\ TurnReturned) =>
        /\ turn_count >= 1
        /\ turn_count \in 1..3 => turn.result = Some(Success)
        /\ turn_count = 4 => turn.result = Some(Win)
        /\ turn_count <= 4 =>
               \A a \in DOMAIN agents :
                   manhattan_distance(agents[a].position, Position(2, 2))
                       = 4 - turn_count

\* The fourth turn has returned Win with the agent on the goal cell.
FourthTurnWinsWitness ==
    /\ scenario = "plan" /\ TurnReturned
    /\ turn_count = 4
    /\ turn.result = Some(Win)
    /\ \E a \in DOMAIN agents : agents[a].position = Position(2, 2)

(***************************************************************************)
(* C21. End to end: on the 3x3 all-floor map with the start at (0, 0), a   *)
(* Chip at (1, 1) and a Goal at (2, 2), with a single PlanningAgent put on *)
(* the start, the agent stands on (1, 1) holding the Chip after the second *)
(* process_turn call, holds the Chip whenever it stands on (2, 2), and the *)
(* first three calls return Success and the fourth returns Win, with the   *)
(* agent on (2, 2).  Before the second call has returned the Chip is still *)
(* on the grid.                                                            *)
(***************************************************************************)
PlannerCollectsChipThenWins ==
    (scenario = "chip" /\ DOMAIN agents # {}) =>
        \A a \in DOMAIN agents :
            /\ agents[a].position = Position(2, 2) =>
                   /\ agents[a].inventory = <<Chip>>
                   /\ turn_count >= 4
            /\ turn_count < 2 =>
                   /\ agents[a].inventory = << >>
                   /\ Index(items, Position(1, 1)) = Some(Chip)
            /\ TurnReturned =>
                   /\ turn_count >= 1
                   /\ turn_count \in 1..3 => turn.result = Some(Success)
                   /\ turn_count = 2 =>
                          /\ agents[a].position = Position(1, 1)
                          /\ agents[a].inventory = <<Chip>>
                          /\ Index(items, Position(1, 1)) = None
                   /\ turn_count = 4 =>
                          /\ turn.result = Some(Win)
                          /\ agents[a].position = Position(2, 2)

\* The fourth turn has returned Win, the agent on the goal holding the chip.
ChipThenWinWitness ==
    /\ scenario = "chip" /\ TurnReturned
    /\ turn_count = 4
    /\ turn.result = Some(Win)
    /\ \E a \in DOMAIN agents :
          /\ agents[a].position = Position(2, 2)
          /\ agents[a].inventory = <<Chip>>

(***************************************************************************)
(* C22. End to end: on a map where a closed Green door lies between the    *)
(* start and both the only Goal and the only Green key, with no chips and  *)
(* a single PlanningAgent that holds no key, process_turn never returns    *)
(* Win, the agent stays on the start, holds nothing, and every action it   *)
(* emits is Wait.                                                          *)
(***************************************************************************)
LockedOutPlannerWaits ==
    scenario = "locked" =>
        /\ turn.result # Some(Win)
        /\ IsTurnAction => last.action = Wait /\ last.result = Success
        /\ \A a \in DOMAIN agents :
              /\ agents[a].position
                     = load_environment_from_string(Scenarios["locked"].map).start
              /\ agents[a].inventory = << >>
              /\ agent_behaviors[a].current_plan = << >>

\* MaxTurns calls of process_turn have returned, the last after a Wait.
LockedOutWitness ==
    /\ scenario = "locked" /\ TurnReturned
    /\ turn_count = MaxTurns
    /\ IsTurnAction /\ last.action = Wait
    /\ turn.result = Some(Success)

(***************************************************************************)
(* Vocabulary of the properties about a_star_path: the last call is a      *)
(* path query, and what it was asked on.                                   *)
(***************************************************************************)
IsPathQuery == last.op = "a_star_path"
\* Only Floor cells, and no agent but the one that asks.
OpenGrid ==
    /\ \A pos \in Positions(terrain) : Index(terrain, pos) = Floor
    /\ DOMAIN agents = {0}
\* path leads from start to goal by steps between 4-connected cells.
LeadsFromTo(path, start, goal) ==
    /\ path # << >>
    /\ path[1] = start
    /\ path[Len(path)] = goal
    /\ \A i \in 1..(Len(path) - 1) : manhattan_distance(path[i], path[i + 1]) = 1

(***************************************************************************)
(* C23. On a rectangular grid with only Floor cells and no other agents,   *)
(* for every start and goal cell a_star_path returns a path from start to  *)
(* goal whose number of steps (positions minus one) equals                 *)
(* manhattan_distance(start, goal) exactly.                                *)
(***************************************************************************)
AStarOpenGridManhattan ==
    (IsPathQuery /\ OpenGrid) =>
        /\ last.path.some
        /\ LeadsFromTo(last.path.value, last.start, last.goal)
        /\ Len(last.path.value) - 1 = manhattan_distance(last.start, last.goal)

\* A path of three steps around a corner of an open grid, from a start that
\* is not the grid's first cell.
OpenGridPathWitness ==
    /\ IsPathQuery /\ OpenGrid
    /\ last.path.some /\ Len(last.path.value) = 4
    /\ last.start.x # last.goal.x /\ last.start.y # last.goal.y
    /\ last.start # Position(0, 0)

\* A route may pass through pos: it is no Wall, no agent stands on it, and
\* it is no closed door requiring a key whose colour is not among keys_held.
Passable(pos, keys_held) ==
    /\ Index(terrain, pos) # Wall
    /\ Index(agent_locations, pos) = None
    /\ \A k \in DoorKeyType :
          Index(terrain, pos) = Door(FALSE, Some(k)) => k \in keys_held

\* The cells that 4-connected routes through passable cells reach from
\* the cells of reached.
RECURSIVE RoutesFrom(_, _)
RoutesFrom(reached, keys_held) ==
    LET further == {pos \in Positions(terrain) :
                      /\ Passable(pos, keys_held)
                      /\ \E from \in reached : manhattan_distance(from, pos) = 1}
    IN  IF further \subseteq reached THEN reached
        ELSE RoutesFrom(reached \cup further, keys_held)

Separated(start, goal, keys_held) == goal \notin RoutesFrom({start}, keys_held)

(***************************************************************************)
(* C24. a_star_path returns no path whenever every 4-connected route from  *)
(* start to goal passes through a Wall, a cell occupied by an agent, or a  *)
(* closed key-required Door whose colour is not in keys_held; and a path   *)
(* it returns leads from start to goal and passes through no such cell, in *)
(* particular through no closed Door whose colour the agent does not hold. *)
(***************************************************************************)
AStarRespectsObstacles ==
    IsPathQuery =>
        /\ Separated(last.start, last.goal, last.keys_held) => last.path = None
        /\ last.path.some =>
              /\ LeadsFromTo(last.path.value, last.start, last.goal)
              /\ \A i \in 2..Len(last.path.value) :
                    Passable(last.path.value[i], last.keys_held)

\* No path was returned to an agent without key for a goal that only a
\* closed green door separates it from.
DoorSeparatesWitness ==
    /\ IsPathQuery /\ last.path = None
    /\ last.keys_held = {}
    /\ Separated(last.start, last.goal, {})
    /\ ~Separated(last.start, last.goal, {"Green"})
    /\ manhattan_distance(last.start, last.goal) > 1

\* The cells of the item grid that the last call changed.
ItemCellsChanged ==
    {pos \in Positions(items) : Index(items, pos) # Index(pre.items, pos)}

\* The mover's inventory is what it was with item appended, less the key
\* that opening the target door has consumed, if it opened one.
AppendedToInventory(item) ==
    \/ InventoryAfter = Append(InventoryBefore, item)
    \/ \E k \in DoorKeyType :
          /\ ClosedDoorRequiring(k)
          /\ OneKeyRemoved(Append(InventoryBefore, item), InventoryAfter, k)

(***************************************************************************)
(* C25. No item is created during play: an action changes a cell of the    *)
(* item grid only from Some(item) to None, only the target cell of a       *)
(* registered mover, and exactly when that item is appended to the mover's *)
(* inventory in the same action; an action that changes no cell of the     *)
(* item grid adds no item to any inventory.                                *)
(***************************************************************************)
ItemsOnlyLeaveByPickup ==
    IsAction =>
        /\ \A pos \in ItemCellsChanged :
              /\ Index(pre.items, pos).some
              /\ Index(items, pos) = None
              /\ MoveInBounds /\ pos = Target
              /\ AppendedToInventory(Index(pre.items, pos).value)
        /\ \A a \in DOMAIN agents :
              (ItemCellsChanged = {} \/ a # Mover) =>
                  \A item \in {Chip, Goal} \cup {Key(k) : k \in DoorKeyType} :
                      Count(agents[a].inventory, item)
                          <= Count(pre.agents[a].inventory, item)
        /\ DOMAIN agents = DOMAIN pre.agents

\* A key left the grid and is the last item of the mover's inventory.
ItemPickedUpWitness ==
    /\ IsAction /\ ItemCellsChanged # {}
    /\ TargetItem.some /\ TargetItem.value.tag = "Key"
    /\ InventoryAfter = Append(InventoryBefore, TargetItem.value)
    /\ last.result = Success

(***************************************************************************)
(* Vocabulary of the properties about Grid: the last call is one of the    *)
(* Grid operations, made with (last.x, last.y) on the grid pre.terrain.    *)
(***************************************************************************)
IsGridCall == scenario = "grid" /\ last.op # "Grid::new"
InGrid == last.x < pre.terrain.width /\ last.y < pre.terrain.height
\* The cell of (last.x, last.y) in the row-major vector of cells.
CellAt == pre.terrain.cells[last.y * pre.terrain.width + last.x + 1]

(***************************************************************************)
(* C26. For every grid and every (x, y): if x < width and y < height then  *)
(* is_valid is true and get(x, y) returns the cell of (x, y), the same as  *)
(* the indexed accessors grid[(x, y)] and grid[Position {x, y}] (get_mut   *)
(* leads to it and set writes it and nothing else); otherwise is_valid is  *)
(* false, get and get_mut return None, set returns OutOfBounds leaving the *)
(* grid unchanged, and the indexed accessors abort.                        *)
(***************************************************************************)
GridAccessContract ==
    IsGridCall =>
        IF InGrid
        THEN /\ last.op = "is_valid" => last.result = TRUE
             /\ last.op \in {"get", "get_mut"} => last.result = Some(CellAt)
             /\ last.op \in {"index", "index_position"} =>
                    last.result = Returned(CellAt)
             /\ get(pre.terrain, last.x, last.y).value
                    = index_coords(pre.terrain, <<last.x, last.y>>).value
             /\ get(pre.terrain, last.x, last.y).value
                    = index_position(pre.terrain, Position(last.x, last.y)).value
             /\ last.op = "set" =>
                    /\ last.result = TRUE
                    /\ terrain.width = pre.terrain.width
                    /\ terrain.height = pre.terrain.height
                    /\ \A i \in DOMAIN pre.terrain.cells :
                          terrain.cells[i] =
                              IF i = last.y * pre.terrain.width + last.x + 1
                              THEN last.value ELSE pre.terrain.cells[i]
        ELSE /\ last.op = "is_valid" => last.result = FALSE
             /\ last.op \in {"get", "get_mut"} => last.result = None
             /\ last.op \in {"index", "index_position"} => last.result = Panic
             /\ last.op = "set" => last.result = FALSE
             /\ terrain = pre.terrain

\* An indexed access just right of the first row of a grid holding a Wall,
\* where the flat index would lead to a cell of the next row: it aborts.
GridIndexAbortsWitness ==
    /\ IsGridCall /\ last.op = "index" /\ ~InGrid
    /\ last.y * pre.terrain.width + last.x
           < pre.terrain.width * pre.terrain.height
    /\ last.result = Panic
    /\ \E i \in DOMAIN terrain.cells : terrain.cells[i] = Wall

(***************************************************************************)
(* Vocabulary of the properties about the loader: the last call is a load, *)
(* and the rows of the map it was given, which are the lines of the string *)
(* from the first to the last line that has a token.                       *)
(***************************************************************************)
IsLoad == scenario = "load" /\ last.op = "load_environment_from_string"
TokenLines == {i \in 1..Len(last.map_string) : last.map_string[i] # << >>}
Rows ==
    IF TokenLines = {} THEN << >>
    ELSE LET first == CHOOSE i \in TokenLines : \A j \in TokenLines : i <= j
             final == CHOOSE i \in TokenLines : \A j \in TokenLines : i >= j
         IN  SubSeq(last.map_string, first, final)
RecognisedCodes ==
    {"ST", "BL", "DP", "WL", "WA", "PL", "CH",
     "DG", "DY", "DB", "DR", "KG", "KY", "KB", "KR"}
\* The places <<row, column>> of the "ST" tokens.
StartTokens ==
    {rc \in (1..Len(Rows)) \X (1..MaxMapTokens + 1) :
        rc[2] <= Len(Rows[rc[1]]) /\ Rows[rc[1]][rc[2]] = "ST"}
WellFormedMap ==
    /\ Len(Rows) >= 1
    /\ Len(Rows[1]) > 0
    /\ \A r \in 1..Len(Rows) : Len(Rows[r]) = Len(Rows[1])
    /\ \A r \in 1..Len(Rows) : \A c \in 1..Len(Rows[r]) :
          Rows[r][c] \in RecognisedCodes
    /\ Cardinality(StartTokens) = 1

(***************************************************************************)
(* C27. load_environment_from_string succeeds if and only if the map has   *)
(* at least one row, every row has the same non-zero token count, every    *)
(* token is one of the recognised codes, and exactly one ST token occurs;  *)
(* on success the returned start position is the cell of the ST token, and *)
(* the environment has the map's width and height with no agents           *)
(* registered.  A failed load leaves no environment.                       *)
(***************************************************************************)
LoadSucceedsIffWellFormed ==
    IsLoad =>
        /\ last.ok <=> WellFormedMap
        /\ last.ok =>
              /\ \A rc \in StartTokens :
                    last.start = Position(rc[2] - 1, rc[1] - 1)
              /\ \A g \in {terrain, items, agent_locations} :
                    /\ g.width = Len(Rows[1])
                    /\ g.height = Len(Rows)
                    /\ Len(g.cells) = Len(Rows[1]) * Len(Rows)
              /\ DOMAIN agents = {}
              /\ DOMAIN agent_behaviors = {}
        /\ ~last.ok => env = pre

\* A map of two rows of two tokens was loaded, its start in the second row.
LoadedTwoRowsWitness ==
    /\ IsLoad /\ last.ok
    /\ Len(Rows) = 2 /\ Len(Rows[1]) = 2
    /\ last.start.y = 1
    /\ terrain.width = 2 /\ terrain.height = 2

(***************************************************************************)
(* Vocabulary of the properties about get_corresponding_key_location.      *)
(***************************************************************************)
IsKeyQuery == last.op = "get_corresponding_key_location"
\* The colour that the door at the queried position requires, if it is one.
QueriedDoor ==
    IF /\ last.door_pos \in Positions(terrain)
       /\ Index(terrain, last.door_pos).tag = "Door"
    THEN Index(terrain, last.door_pos).door_type
    ELSE None
\* Where keys of colour k lie on the ground.
KeysOnGround(k) == {pos \in Positions(items) : Index(items, pos) = Some(Key(k))}
\* pos comes before other in the row-major order of the grid.
RowMajorBefore(pos, other) ==
    pos.y < other.y \/ (pos.y = other.y /\ pos.x < other.x)

(***************************************************************************)
(* C28, as claimed. get_corresponding_key_location(door_pos), for a door   *)
(* that requires colour k, returns the on-ground Key(k) position nearest   *)
(* to the door (and None if no Key(k) lies on the ground or door_pos is    *)
(* not a key-required door).  The key returned is the first in the         *)
(* enumeration of the item grid, which need not be the nearest, so this is *)
(* violated.                                                               *)
(***************************************************************************)
KeyLocationIsNearest ==
    IsKeyQuery =>
        IF QueriedDoor.some /\ KeysOnGround(QueriedDoor.value) # {}
        THEN /\ last.result.some
             /\ last.result.value \in KeysOnGround(QueriedDoor.value)
             /\ \A other \in KeysOnGround(QueriedDoor.value) :
                   manhattan_distance(last.door_pos, last.result.value)
                       <= manhattan_distance(last.door_pos, other)
        ELSE last.result = None

(***************************************************************************)
(* C28, amended. get_corresponding_key_location(door_pos), for a door that *)
(* requires colour k, returns the on-ground Key(k) position that comes     *)
(* first in the row-major enumeration of the item grid, whether or not it  *)
(* is the nearest to the door (and None if no Key(k) lies on the ground or *)
(* door_pos is not a key-required door).                                   *)
(***************************************************************************)
KeyLocationIsFirstInRowMajor ==
    IsKeyQuery =>
        IF QueriedDoor.some /\ KeysOnGround(QueriedDoor.value) # {}
        THEN /\ last.result.some
             /\ last.result.value \in KeysOnGround(QueriedDoor.value)
             /\ \A other \in KeysOnGround(QueriedDoor.value) \ {last.result.value} :
                   RowMajorBefore(last.result.value, other)
        ELSE last.result = None

\* Of two keys of the door's colour the first one was returned, which is
\* farther from the door than the other.
FartherKeyWitness ==
    /\ IsKeyQuery /\ last.result.some
    /\ \E other \in KeysOnGround(QueriedDoor.value) :
          manhattan_distance(last.door_pos, other)
              < manhattan_distance(last.door_pos, last.result.value)

\* The only registered agent is a PlanningAgent.
SinglePlanner ==
    /\ Cardinality(DOMAIN agents) = 1
    /\ \A a \in DOMAIN agent_behaviors : agent_behaviors[a].kind = "PlanningAgent"

(***************************************************************************)
(* C29. With a single registered PlanningAgent (no other agents), no       *)
(* queued waypoint is ever blocked: every action the agent emits by        *)
(* popping a waypoint from the plan queue it was asked with is a Move that *)
(* process_action resolves with Success or Win.  A plan through two doors  *)
(* of the colour of the one key held is made as if the key opened both;    *)
(* the first door consumes it, so this is violated.                        *)
(***************************************************************************)
QueuedWaypointNeverBlocked ==
    (IsTurnAction /\ SinglePlanner
        /\ pre.agent_behaviors[Mover].current_plan # << >>) =>
            /\ last.action.tag = "Move"
            /\ last.result \in {Success, Win}

(***************************************************************************)
(* C30. In a world with a single PlanningAgent, process_turn never returns *)
(* Win while a Chip item remains on the item grid: the agent collects      *)
(* every chip before it enters a Goal cell.  The path to a chip may lead   *)
(* over a Goal cell, and stepping on it wins, so this is violated.         *)
(***************************************************************************)
NoWinWhileChipRemains ==
    (SinglePlanner /\ turn.result = Some(Win)) =>
        \A pos \in Positions(items) : Index(items, pos) # Some(Chip)

(***************************************************************************)
(* Vocabulary of the properties about PlanningAgent::get_action: the last  *)
(* call asked the planning agent (alone, or in the loop of process_turn),  *)
(* the view it was given, its plan queue before and after, and where the   *)
(* emitted step and the queued waypoints lead.                             *)
(***************************************************************************)
PlannerAsked ==
    /\ last.op = "get_action" \/ IsTurnAction
    /\ pre.agent_behaviors[Mover].kind = "PlanningAgent"
QueueBefore == pre.agent_behaviors[Mover].current_plan
QueueAfter == agent_behaviors[Mover].current_plan
KeysInView == {k \in DoorKeyType : Holds(last.view.agent_state.inventory, k)}
StepTarget ==
    Position(last.view.location.x + last.action.dx,
             last.view.location.y + last.action.dy)
\* The last cell of the plan just made, and the number of its steps.
Destination == IF QueueAfter = << >> THEN StepTarget ELSE QueueAfter[Len(QueueAfter)]
PlannedSteps == 1 + Len(QueueAfter)

\* A route of the asked agent may pass through pos of the view.
PassableInView(pos) ==
    /\ Index(last.view.terrain_grid, pos) # Wall
    /\ Index(last.view.agent_location_grid, pos) = None
    /\ \A k \in DoorKeyType :
          Index(last.view.terrain_grid, pos) = Door(FALSE, Some(k))
              => k \in KeysInView

\* The number of steps of a shortest 4-connected route through passable
\* cells from the cells of frontier (n steps from the agent, all cells
\* nearer being in seen) to goal, or -1 if there is none.
RECURSIVE StepsFrom(_, _, _, _)
StepsFrom(seen, frontier, goal, n) ==
    IF goal \in frontier THEN n
    ELSE IF frontier = {} THEN -1
    ELSE LET further == {pos \in Positions(last.view.terrain_grid) \ seen :
                           /\ PassableInView(pos)
                           /\ \E from \in frontier :
                                 manhattan_distance(from, pos) = 1}
         IN  StepsFrom(seen \cup further, further, goal, n + 1)

StepsTo(goal) == StepsFrom({last.view.location}, {last.view.location}, goal, 0)

CellsWith(item) ==
    {pos \in Positions(last.view.item_grid) : Index(last.view.item_grid, pos) = Some(item)}
\* The cells of targets that a route of at least one step reaches.
InReach(targets) == {pos \in targets : StepsTo(pos) >= 1}
Nearest(targets) ==
    {pos \in InReach(targets) :
        \A other \in InReach(targets) : StepsTo(pos) <= StepsTo(other)}
UnheldKeyCells ==
    UNION {CellsWith(Key(k)) : k \in DoorKeyType \ KeysInView}
\* The agent was asked with an empty queue while chips exist, none in reach.
ChipsOutOfReach ==
    /\ PlannerAsked /\ QueueBefore = << >>
    /\ CellsWith(Chip) # {}
    /\ InReach(CellsWith(Chip)) = {}
\* The action emitted is the first step of a plan to one of the nearest of
\* targets, the rest of it queued.
PlansToNearest(targets) ==
    /\ last.action.tag = "Move"
    /\ Destination \in Nearest(targets)
    /\ PlannedSteps = StepsTo(Destination)

(***************************************************************************)
(* C31. Goal-selection fall-through: when the plan queue is empty and the  *)
(* chip class yields no plan (chips exist but none is reachable by a path  *)
(* of more than one position), the planner plans to the nearest reachable  *)
(* Goal before considering keys.  While a chip exists the goals are never  *)
(* looked at, so this is violated.                                         *)
(***************************************************************************)
ChipsOutOfReachFallsToGoal ==
    (ChipsOutOfReach /\ InReach(CellsWith(Goal)) # {}) =>
        PlansToNearest(CellsWith(Goal))

(***************************************************************************)
(* C31, amended.  When the plan queue is empty and chips exist but none is *)
(* reachable by a path of more than one position, the planner skips the    *)
(* goals and falls through to the keys: it plans to a nearest reachable    *)
(* key of a colour it does not hold, and with no such key it emits Wait    *)
(* and queues nothing, also when a Goal is reachable.                      *)
(***************************************************************************)
ChipsOutOfReachFallsToKey ==
    ChipsOutOfReach =>
        IF InReach(UnheldKeyCells) # {}
        THEN PlansToNearest(UnheldKeyCells)
        ELSE last.action = Wait /\ QueueAfter = << >>

\* With the chip behind a wall and a goal in reach the agent waited.
WaitedBesideGoalWitness ==
    /\ ChipsOutOfReach
    /\ InReach(CellsWith(Goal)) # {}
    /\ InReach(UnheldKeyCells) = {}
    /\ last.action = Wait

(***************************************************************************)
(* C32. When the plan queue is non-empty, get_action pops exactly one      *)
(* waypoint (the queue afterwards is the queue before without its front),  *)
(* emits the action derived from that waypoint and plans nothing; when it  *)
(* plans a path of n > 1 positions from an empty queue it emits the step   *)
(* to the path's second position and leaves the n - 2 positions after it   *)
(* queued (the path being a shortest one to where it leads, n - 1 is the   *)
(* number of steps to its last cell); when it emits Wait from an empty     *)
(* queue the queue stays empty.                                            *)
(***************************************************************************)
GetActionPopsOneWaypoint ==
    (PlannerAsked /\ IsTurnAction) =>
        /\ QueueBefore # << >> =>
              /\ QueueAfter = Tail(QueueBefore)
              /\ last.action
                     = position_to_action(last.view.location, Head(QueueBefore))
        /\ (QueueBefore = << >> /\ last.action.tag = "Move") =>
              /\ LeadsFromTo(<<last.view.location, StepTarget>> \o QueueAfter,
                             last.view.location, Destination)
              /\ Len(QueueAfter) = (StepsTo(Destination) + 1) - 2
        /\ (QueueBefore = << >> /\ last.action = Wait) => QueueAfter = << >>

\* A waypoint was popped from a queue of three that an earlier turn left.
ThreeQueuedWitness ==
    /\ PlannerAsked /\ IsTurnAction
    /\ Len(QueueBefore) = 3
    /\ last.action.tag = "Move"
    /\ Len(QueueAfter) = 2

\* The front of the plan queue q is not a step away from position.
Stale(q, position) == q # << >> /\ manhattan_distance(position, q[1]) > 1

(***************************************************************************)
(* C33. A popped waypoint that is neither equal to nor 4-adjacent to the   *)
(* agent's current position makes get_action emit Wait: the waypoint is    *)
(* discarded, the action succeeds, the agent stays as it is and the turn   *)
(* goes on.  And whenever the front of an agent's queue is out of its      *)
(* reach so is every waypoint behind it, so the stale remainder of a plan  *)
(* drains one waypoint per turn until the queue is empty (when the agent   *)
(* plans again).                                                           *)
(***************************************************************************)
StaleWaypointsDrain ==
    /\ (PlannerAsked /\ IsTurnAction /\ Stale(QueueBefore, last.view.location)) =>
          /\ last.action = Wait
          /\ last.result = Success
          /\ QueueAfter = Tail(QueueBefore)
          /\ agents[Mover] = pre.agents[Mover]
          /\ turn.result # Some(Win)
    /\ \A a \in DOMAIN agents :
          (/\ agent_behaviors[a].kind = "PlanningAgent"
           /\ Stale(agent_behaviors[a].current_plan, agents[a].position)) =>
              \A i \in 1..Len(agent_behaviors[a].current_plan) :
                  manhattan_distance(agents[a].position,
                                     agent_behaviors[a].current_plan[i]) > 1

\* The first of two stale waypoints was discarded with a Wait.
StaleWaypointWitness ==
    /\ PlannerAsked /\ IsTurnAction
    /\ Len(QueueBefore) = 2
    /\ Stale(QueueBefore, last.view.location)
    /\ last.action = Wait
    /\ Len(QueueAfter) = 1

\* The class of targets that get_action plans to first: the chips while
\* there is one, else the goals.
PrimaryTargets == IF CellsWith(Chip) # {} THEN CellsWith(Chip) ELSE CellsWith(Goal)

(***************************************************************************)
(* C34. Among several reachable chips (or, with no chip left, goals) the   *)
(* planner asked with an empty queue targets one whose path is shortest,   *)
(* and among equally short ones the target that comes first in row-major   *)
(* grid enumeration (smaller y, then smaller x).                           *)
(***************************************************************************)
NearestTargetFirstInRowMajor ==
    (PlannerAsked /\ QueueBefore = << >> /\ InReach(PrimaryTargets) # {}) =>
        /\ PlansToNearest(PrimaryTargets)
        /\ \A other \in Nearest(PrimaryTargets) \ {Destination} :
              RowMajorBefore(Destination, other)

\* Of two goals equally near, one below the agent and one to its right,
\* the one to its right was targeted.
TiedGoalsWitness ==
    /\ PlannerAsked /\ QueueBefore = << >>
    /\ CellsWith(Chip) = {}
    /\ Cardinality(Nearest(CellsWith(Goal))) = 2
    /\ last.action = Move(1, 0)
    /\ \E other \in Nearest(CellsWith(Goal)) :
          other.y > Destination.y /\ other.x < Destination.x

(***************************************************************************)
(* C35. No agent behavior ever emits a diagonal move: every action that    *)
(* get_action of a RandomWalker or of a PlanningAgent returns in the loop  *)
(* of process_turn is Wait or a Move with exactly one of dx, dy non-zero   *)
(* and of magnitude 1, so no agent's position changes in both coordinates  *)
(* in one action.  A RandomWalker draws dx and dy independently from       *)
(* -1..=1, so this is violated.                                            *)
(***************************************************************************)
NoDiagonalAction ==
    IsTurnAction =>
        /\ \/ last.action = Wait
           \/ /\ last.action.tag = "Move"
              /\ <<last.action.dx, last.action.dy>>
                     \in {<<0, 1>>, <<0, -1>>, <<1, 0>>, <<-1, 0>>}
        /\ \/ agents[Mover].position.x = pre.agents[Mover].position.x
           \/ agents[Mover].position.y = pre.agents[Mover].position.y

(***************************************************************************)
(* C36. No agent ever stands on an impassable cell: in every reachable     *)
(* state each agent's position is a Floor cell or an open Door, never a    *)
(* Wall and never a closed Door.  A Goal added on a closed door is entered *)
(* without a look at the terrain, so this is violated.                     *)
(***************************************************************************)
NoAgentOnImpassableCell ==
    \A a \in DOMAIN agents :
        \/ Index(terrain, agents[a].position) = Floor
        \/ /\ Index(terrain, agents[a].position).tag = "Door"
           /\ Index(terrain, agents[a].position).open

\* The number of steps of a shortest 4-connected route through passable
\* cells from the cells of frontier (n steps from the start, all cells
\* nearer being in seen) to goal, or -1 if there is none.
RECURSIVE RouteSteps(_, _, _, _, _)
RouteSteps(seen, frontier, goal, keys_held, n) ==
    IF goal \in frontier THEN n
    ELSE IF frontier = {} THEN -1
    ELSE LET further == {pos \in Positions(terrain) \ seen :
                           /\ Passable(pos, keys_held)
                           /\ \E from \in frontier :
                                 manhattan_distance(from, pos) = 1}
         IN  RouteSteps(seen \cup further, further, goal, keys_held, n + 1)

ShortestRoute(start, goal, keys_held) ==
    RouteSteps({start}, {start}, goal, keys_held, 0)

(***************************************************************************)
(* C37. Whenever a_star_path returns a path, the path starts at start,     *)
(* ends at goal, every consecutive pair of positions is 4-adjacent, every  *)
(* position after the first is a valid neighbor (in bounds, not a Wall,    *)
(* not occupied by an agent, not a closed Door of an unheld colour), and   *)
(* no valid path with fewer steps exists; it returns None only if no valid *)
(* path exists.                                                            *)
(***************************************************************************)
AStarShortestValidPath ==
    IsPathQuery =>
        /\ last.path.some =>
              /\ LeadsFromTo(last.path.value, last.start, last.goal)
              /\ \A i \in 2..Len(last.path.value) :
                    /\ last.path.value[i] \in Positions(terrain)
                    /\ Passable(last.path.value[i], last.keys_held)
              /\ Len(last.path.value) - 1
                     = ShortestRoute(last.start, last.goal, last.keys_held)
        /\ last.path = None =>
              ShortestRoute(last.start, last.goal, last.keys_held) = -1

\* A path of four steps around two obstacles to a goal two cells away.
DetourWitness ==
    /\ IsPathQuery /\ last.path.some
    /\ Len(last.path.value) = 5
    /\ manhattan_distance(last.start, last.goal) = 2

\* In environment e: the keys of colour k on the ground and in the
\* inventories, the doors of colour k that stand open, and the chips on the
\* ground and in the inventories.
RECURSIVE Sum(_, _)
Sum(f, S) ==
    IF S = {} THEN 0
    ELSE LET x == CHOOSE y \in S : TRUE IN f[x] + Sum(f, S \ {x})
OnGround(e, item) ==
    Cardinality({pos \in Positions(e.items) : Index(e.items, pos) = Some(item)})
Held(e, item) ==
    Sum([a \in DOMAIN e.agents |-> Count(e.agents[a].inventory, item)],
        DOMAIN e.agents)
OpenDoors(e, k) ==
    Cardinality({pos \in Positions(e.terrain) :
                    Index(e.terrain, pos) = Door(TRUE, Some(k))})

(***************************************************************************)
(* C38. Keys and chips are conserved: a process_action call leaves, for    *)
(* each colour k, the number of Key(k) items on the ground plus the number *)
(* held in all inventories plus the number of colour-k doors opened so far *)
(* as it was, and likewise the number of Chips on the ground plus the      *)
(* number in all inventories; so both are constant over any sequence of    *)
(* process_action calls.                                                   *)
(***************************************************************************)
KeysAndChipsConserved ==
    IsAction =>
        /\ \A k \in DoorKeyType :
              OnGround(env, Key(k)) + Held(env, Key(k)) + OpenDoors(env, k)
                  = OnGround(pre, Key(k)) + Held(pre, Key(k)) + OpenDoors(pre, k)
        /\ OnGround(env, Chip) + Held(env, Chip)
              = OnGround(pre, Chip) + Held(pre, Chip)

\* A key taken from the cell of a door of its colour opened that door at
\* once: one key less on the ground, one door more open.
KeySpentOnEntryWitness ==
    /\ IsAction /\ last.result = Success
    /\ \E k \in DoorKeyType :
          /\ OnGround(env, Key(k)) = OnGround(pre, Key(k)) - 1
          /\ Held(env, Key(k)) = Held(pre, Key(k))
          /\ OpenDoors(env, k) = OpenDoors(pre, k) + 1

(***************************************************************************)
(* C39. Liveness of the key-door-goal chain: with a single PlanningAgent   *)
(* holding no key, no chips, exactly one closed Green door lying on every  *)
(* route to the only Goal, and one Green key reachable from the start      *)
(* without passing any door, repeated process_turn calls eventually return *)
(* Win.                                                                    *)
(***************************************************************************)
KeyDoorGoalEventuallyWins == <>(turn.result = Some(Win))

\* Win was returned with the door open, the key spent and none left.
ChainCompletedWitness ==
    /\ turn.result = Some(Win)
    /\ OpenDoors(env, "Green") = 1
    /\ Held(env, Key("Green")) = 0
    /\ OnGround(env, Key("Green")) = 0
    /\ terrain.height > 1

====
